---------------------------- MODULE Spec2Model ----------------------------
(***************************************************************************)
(* A model of the tiny-redis data engine (KeyValueStore), its ordered-set  *)
(* index (Skiplist) and its snapshot codec (Rdb).                          *)
(*                                                                         *)
(* Byte strings (std::string) are sequences of byte values, so that the    *)
(* lexicographic order of members and the text of a snapshot file are      *)
(* computed the way the code computes them.  A std::optional is a sequence *)
(* of length 0 (nullopt) or 1.  A score (double) is an integer number of   *)
(* units of 1e-7, so that two distinct scores can lie within kDelta of     *)
(* each other and so that "%f" printing loses the seventh decimal.         *)
(***************************************************************************)
EXTENDS Integers, Sequences, FiniteSets, TLC

VARIABLES
    map_,           \* KeyValueStore::map_  : key -> ValueRecord
    hmap_,          \* KeyValueStore::hmap_ : key -> HashRecord
    zmap_,          \* KeyValueStore::zmap_ : key -> ZSetRecord
    expire_index_,  \* KeyValueStore::expire_index_ : key -> expire_at_ms
    now,            \* the steady clock read by nowMs(), in ms
    file,           \* the bytes of the snapshot file at Rdb::path()
    crashed,        \* the process has been terminated
    last_offset_,   \* ReplicaClient::last_offset_
    ret,            \* the last operation, its arguments and what it returned
    skiplist,       \* a Skiplist object of its own
    opts_,          \* AofLogger::opts_ : enabled and the fsync mode
    queue_,         \* AofLogger::queue_ : the AofItems not yet written
    seq_gen_,       \* AofLogger::seq_gen_
    last_synced_seq_,   \* AofLogger::last_synced_seq_
    rewriting_,     \* AofLogger::rewriting_
    incr_cmds_,     \* AofLogger::incr_cmds_
    pause_writer_,  \* AofLogger::pause_writer_
    writer_is_paused_,  \* AofLogger::writer_is_paused_
    aof,            \* the records of the log file at AofLogger::path()
    tmp,            \* the records of the file a rewrite is building
    mu_,            \* KeyValueStore::mu_ : the task that holds it
    pc,             \* where each task stands
    local,          \* what each task holds in its local variables
    outbound,       \* the responses emitted to the client, in order
    running_,       \* ReplicaClient::running_
    sock            \* the connection to the primary: open, frames to read

\* the AofLogger object, its files and the tasks around it
aofVars ==
    <<opts_, queue_, seq_gen_, last_synced_seq_, rewriting_, incr_cmds_,
      pause_writer_, writer_is_paused_, aof, tmp, mu_, pc, local, outbound>>

\* the stop flag of the replication client and its connection
replVars == <<running_, sock>>

\* what no engine operation, snapshot or replication step touches
outside == <<skiplist, aofVars, replVars>>

vars ==
    <<map_, hmap_, zmap_, expire_index_, now, file, crashed, last_offset_, ret,
      outside>>

---------------------------------------------------------------------------
(* Bounds of the model *)

\* the clock runs from 0 to MaxNow
MaxNow == 2
\* levels 1..MaxSampledLevel are drawn for Skiplist::randomLevel
MaxSampledLevel == 2
\* the ordered-set threshold of the model; the source sets 128
kZsetVectorThreshold == 2
\* key vectors passed to del, hdel and zrem hold at most MaxArgs names
MaxArgs == 2
\* a skiplist holds at most MaxStale nodes more than there are members
MaxStale == 1
\* the client sends at most MaxCmds mutating commands
MaxCmds == 3
\* the process is started with at most MaxArgc arguments
MaxArgc == 3
\* a Skiplist called directly holds at most MaxNodes nodes
MaxNodes == 3
\* at most MaxInbox frames wait on the connection to be read
MaxInbox == 2

---------------------------------------------------------------------------
(* Program constants *)

\* kDelta = 0.000001, in score units of 1e-7
kDelta == 10
\* Skiplist::kMaxLevel
kMaxLevel == 32

---------------------------------------------------------------------------
(* Byte strings, optionals and maps *)

nullopt == <<>>

Some(x) == <<x>>

has_value(o) == Len(o) = 1

\* std::string operator< : lexicographic on bytes
RECURSIVE StrLess(_, _)
StrLess(a, b) ==
    IF b = <<>> THEN FALSE
    ELSE IF a = <<>> THEN TRUE
    ELSE IF Head(a) # Head(b) THEN Head(a) < Head(b)
    ELSE StrLess(Tail(a), Tail(b))

\* unordered_map::erase(key)
MapErase(m, k) == [x \in (DOMAIN m) \ {k} |-> m[x]]

\* unordered_map::operator[](key) = v
MapPut(m, k, v) == [x \in (DOMAIN m) \cup {k} |-> IF x = k THEN v ELSE m[x]]

EmptyMap == [x \in {} |-> 0]

\* abs() of a difference of two scores
Abs(x) == IF x < 0 THEN -x ELSE x

\* the four maps of the engine as one value
Store ==
    [map_ |-> map_, hmap_ |-> hmap_, zmap_ |-> zmap_,
     expire_index_ |-> expire_index_]

EmptyStore ==
    [map_ |-> EmptyMap, hmap_ |-> EmptyMap, zmap_ |-> EmptyMap,
     expire_index_ |-> EmptyMap]

---------------------------------------------------------------------------
(* Expiry *)

\* a record is kept through the millisecond of its expiry
isExpired_Late(r, now_ms) == r.expire_at_ms >= 0 /\ now_ms > r.expire_at_ms

\* isExpired, the same for the three record types
isExpired(r, now_ms) == r.expire_at_ms >= 0 /\ now_ms >= r.expire_at_ms

cleanupIfExpired(s, key, now_ms) ==
    IF key \notin DOMAIN s.map_ THEN s
    ELSE IF isExpired(s.map_[key], now_ms)
         THEN [s EXCEPT !.map_ = MapErase(@, key),
                        !.expire_index_ = MapErase(@, key)]
         ELSE s

cleanupIfExpiredHash(s, key, now_ms) ==
    IF key \notin DOMAIN s.hmap_ THEN s
    ELSE IF isExpired(s.hmap_[key], now_ms)
         THEN [s EXCEPT !.hmap_ = MapErase(@, key),
                        !.expire_index_ = MapErase(@, key)]
         ELSE s

cleanupIfExpiredZSet(s, key, now_ms) ==
    IF key \notin DOMAIN s.zmap_ THEN s
    ELSE IF isExpired(s.zmap_[key], now_ms)
         THEN [s EXCEPT !.zmap_ = MapErase(@, key),
                        !.expire_index_ = MapErase(@, key)]
         ELSE s

---------------------------------------------------------------------------
(* Scalar operations.  Each returns [s |-> the store after, r |-> result]. *)

\* set that leaves the expiry of the record it overwrites when no TTL is given
set_KeepsExpiry(s, key, value, ttl_ms, now_ms) ==
    LET expire_at == IF has_value(ttl_ms) THEN now_ms + ttl_ms[1]
                     ELSE IF key \in DOMAIN s.map_
                     THEN s.map_[key].expire_at_ms ELSE -1
    IN  [s |-> [s EXCEPT
                  !.map_ = MapPut(@, key, [value |-> value,
                                        expire_at_ms |-> expire_at]),
                  !.expire_index_ = IF expire_at >= 0
                                    THEN MapPut(@, key, expire_at)
                                    ELSE MapErase(@, key)],
         r |-> TRUE]

set(s, key, value, ttl_ms, now_ms) ==
    LET expire_at == IF has_value(ttl_ms) THEN now_ms + ttl_ms[1] ELSE -1
    IN  [s |-> [s EXCEPT
                  !.map_ = MapPut(@, key, [value |-> value,
                                        expire_at_ms |-> expire_at]),
                  !.expire_index_ = IF expire_at >= 0
                                    THEN MapPut(@, key, expire_at)
                                    ELSE MapErase(@, key)],
         r |-> TRUE]

setWithExpireAtMs(s, key, value, expire_at_ms) ==
    [s |-> [s EXCEPT
              !.map_ = MapPut(@, key, [value |-> value,
                                    expire_at_ms |-> expire_at_ms]),
              !.expire_index_ = IF expire_at_ms >= 0
                                THEN MapPut(@, key, expire_at_ms)
                                ELSE @],
     r |-> TRUE]

get(s, key, now_ms) ==
    LET s1 == cleanupIfExpired(s, key, now_ms)
    IN  [s |-> s1,
         r |-> IF key \notin DOMAIN s1.map_ THEN nullopt
               ELSE Some(s1.map_[key].value)]

\* the loop body of del for one key: [s, removed]
delOne(s, k, now_ms) ==
    LET s1 == cleanupIfExpired(s, k, now_ms)
    IN  IF k \in DOMAIN s1.map_
        THEN [s |-> [s1 EXCEPT !.map_ = MapErase(@, k),
                               !.expire_index_ = MapErase(@, k)],
              r |-> 1]
        ELSE [s |-> s1, r |-> 0]

RECURSIVE del(_, _, _)
del(s, keys, now_ms) ==
    IF keys = <<>> THEN [s |-> s, r |-> 0]
    ELSE LET one  == delOne(s, Head(keys), now_ms)
             rest == del(one.s, Tail(keys), now_ms)
         IN  [s |-> rest.s, r |-> one.r + rest.r]

exists(s, key, now_ms) ==
    LET s1 == cleanupIfExpired(s, key, now_ms)
    IN  [s |-> s1,
         r |-> \/ key \in DOMAIN s1.map_
               \/ key \in DOMAIN s1.hmap_
               \/ key \in DOMAIN s1.zmap_]

expire(s, key, ttl_seconds, now_ms) ==
    LET s1 == cleanupIfExpired(s, key, now_ms)
    IN  IF key \notin DOMAIN s1.map_ THEN [s |-> s1, r |-> FALSE]
        ELSE IF ttl_seconds < 0
        THEN [s |-> [s1 EXCEPT !.map_[key].expire_at_ms = -1,
                               !.expire_index_ = MapErase(@, key)],
              r |-> TRUE]
        ELSE [s |-> [s1 EXCEPT
                       !.map_[key].expire_at_ms = now_ms + ttl_seconds * 1000,
                       !.expire_index_ =
                           MapPut(@, key, now_ms + ttl_seconds * 1000)],
              r |-> TRUE]

ttl(s, key, now_ms) ==
    LET s1 == cleanupIfExpired(s, key, now_ms)
    IN  [s |-> s1,
         r |-> IF key \notin DOMAIN s1.map_ THEN -2
               ELSE IF s1.map_[key].expire_at_ms < 0 THEN -1
               ELSE IF s1.map_[key].expire_at_ms - now_ms <= 0 THEN -2
               ELSE (s1.map_[key].expire_at_ms - now_ms) \div 1000]

---------------------------------------------------------------------------
(* Field-map operations *)

hset(s, key, field, value, now_ms) ==
    LET s1  == cleanupIfExpiredHash(s, key, now_ms)
        \* hmap_[key] creates an empty persistent record when there is none
        rec == IF key \in DOMAIN s1.hmap_ THEN s1.hmap_[key]
               ELSE [fields |-> EmptyMap, expire_at_ms |-> -1]
    IN  [s |-> [s1 EXCEPT !.hmap_ =
                   MapPut(@, key, [rec EXCEPT !.fields = MapPut(@, field, value)])],
         r |-> IF field \notin DOMAIN rec.fields THEN 1 ELSE 0]

hget(s, key, field, now_ms) ==
    LET s1 == cleanupIfExpiredHash(s, key, now_ms)
    IN  [s |-> s1,
         r |-> IF key \notin DOMAIN s1.hmap_ THEN nullopt
               ELSE IF field \notin DOMAIN s1.hmap_[key].fields THEN nullopt
               ELSE Some(s1.hmap_[key].fields[field])]

\* the loop of hdel over the fields: [fields, removed]
RECURSIVE hdelFields(_, _)
hdelFields(fields, fs) ==
    IF fs = <<>> THEN [fields |-> fields, removed |-> 0]
    ELSE LET hit  == Head(fs) \in DOMAIN fields
             rest == hdelFields(IF hit THEN MapErase(fields, Head(fs)) ELSE fields,
                                Tail(fs))
         IN  [fields |-> rest.fields,
              removed |-> rest.removed + (IF hit THEN 1 ELSE 0)]

\* hdel that keeps a record from which it has removed the last field
hdel_KeepsEmpty(s, key, fields, now_ms) ==
    LET s1 == cleanupIfExpiredHash(s, key, now_ms)
    IN  IF key \in DOMAIN s1.hmap_
        THEN LET d == hdelFields(s1.hmap_[key].fields, fields)
             IN  [s |-> [s1 EXCEPT !.hmap_[key].fields = d.fields],
                  r |-> d.removed]
        ELSE [s |-> s1, r |-> 0]

hdel(s, key, fields, now_ms) ==
    LET s1 == cleanupIfExpiredHash(s, key, now_ms)
    IN  IF key \notin DOMAIN s1.hmap_ THEN [s |-> s1, r |-> 0]
        ELSE LET d == hdelFields(s1.hmap_[key].fields, fields)
             IN  [s |-> [s1 EXCEPT !.hmap_ =
                            IF DOMAIN d.fields = {} THEN MapErase(@, key)
                            ELSE [@ EXCEPT ![key].fields = d.fields]],
                  r |-> d.removed]

hexists(s, key, field, now_ms) ==
    LET s1 == cleanupIfExpiredHash(s, key, now_ms)
    IN  [s |-> s1,
         r |-> /\ key \in DOMAIN s1.hmap_
               /\ field \in DOMAIN s1.hmap_[key].fields]

\* hgetallFlat: the order of the fields is the map's; the model returns the
\* set of (field, value) pairs
hgetallFlat(s, key, now_ms) ==
    LET s1 == cleanupIfExpiredHash(s, key, now_ms)
    IN  [s |-> s1,
         r |-> IF key \notin DOMAIN s1.hmap_ THEN {}
               ELSE {<<f, s1.hmap_[key].fields[f]>> :
                        f \in DOMAIN s1.hmap_[key].fields}]

hlen(s, key, now_ms) ==
    LET s1 == cleanupIfExpiredHash(s, key, now_ms)
    IN  [s |-> s1,
         r |-> IF key \notin DOMAIN s1.hmap_ THEN 0
               ELSE Cardinality(DOMAIN s1.hmap_[key].fields)]

setHashExpireAtMs(s, key, expire_at_ms) ==
    IF key \notin DOMAIN s.hmap_ THEN [s |-> s, r |-> FALSE]
    ELSE [s |-> [s EXCEPT !.hmap_[key].expire_at_ms = expire_at_ms,
                          !.expire_index_ = IF expire_at_ms >= 0
                                            THEN MapPut(@, key, expire_at_ms)
                                            ELSE MapErase(@, key)],
          r |-> TRUE]

---------------------------------------------------------------------------
(* Skiplist.  A node is <<score, member>>.  chain[i] is the list of nodes  *)
(* reached from head_ through forward[i-1]; a position in a chain is the   *)
(* number of nodes before it, 0 being head_ itself.                        *)

nullptr == -1

NewSkiplist ==
    [length_ |-> 0, level_ |-> 1, chain |-> [i \in 1..kMaxLevel |-> <<>>]]

comparedLess(sc1, m1, sc2, m2) ==
    IF Abs(sc1 - sc2) <= kDelta THEN StrLess(m1, m2) ELSE sc1 < sc2

\* the inner while loop of insert and erase on one level, from position p
RECURSIVE Advance(_, _, _, _)
Advance(c, p, score, member) ==
    IF p + 1 <= Len(c) /\ comparedLess(c[p + 1][1], c[p + 1][2], score, member)
    THEN Advance(c, p + 1, score, member)
    ELSE p

\* the position in the chain below of the node at position p of a chain
RECURSIVE Locate(_, _, _)
Locate(upper, p, lower) ==
    IF p = 0 THEN 0
    ELSE LET prev  == Locate(upper, p - 1, lower)
             cands == {j \in (prev + 1)..Len(lower) : lower[j] = upper[p]}
         IN  IF cands = {} THEN prev
             ELSE CHOOSE j \in cands : \A j2 \in cands : j <= j2

\* the outer for loop of insert and erase from level i down, x at position p
RECURSIVE WalkFrom(_, _, _, _, _)
WalkFrom(sl, i, p, score, member) ==
    LET q == Advance(sl.chain[i], p, score, member)
    IN  IF i = 1 THEN (1 :> q)
        ELSE (i :> q) @@ WalkFrom(sl, i - 1,
                                  Locate(sl.chain[i], q, sl.chain[i - 1]),
                                  score, member)

\* the vector update after the search: value-initialised to nullptr, set
\* for the levels below level_
SearchUpdate(sl, score, member) ==
    LET w == WalkFrom(sl, sl.level_, 0, score, member)
    IN  [i \in 1..kMaxLevel |-> IF i <= sl.level_ THEN w[i] ELSE nullptr]

InsertAt(c, pos, node) ==
    SubSeq(c, 1, pos) \o <<node>> \o SubSeq(c, pos + 1, Len(c))

RemoveAt(c, idx) == SubSeq(c, 1, idx - 1) \o SubSeq(c, idx + 1, Len(c))

\* Skiplist::insert with lvl the value randomLevel() returns.
\* [sl, r, ub]: ub says a null pointer was dereferenced.
insert(sl, score, member, lvl) ==
    LET update == SearchUpdate(sl, score, member)
        c1     == sl.chain[1]
        xi     == update[1] + 1
        found  == /\ xi <= Len(c1)
                  /\ Abs(c1[xi][1] - score) <= kDelta
                  /\ c1[xi][2] = member
        level2 == IF lvl > sl.level_ THEN lvl ELSE sl.level_
        \* for (i = level_; i < lvl; ++i) runs after level_ = lvl
        fixed  == IF lvl > sl.level_ THEN level2..(lvl - 1) ELSE {}
        upd2   == [i \in 1..kMaxLevel |->
                      IF (i - 1) \in fixed THEN 0 ELSE update[i]]
    IN  IF found THEN [sl |-> sl, r |-> FALSE, ub |-> FALSE]
        ELSE IF \E i \in 1..lvl : upd2[i] = nullptr
        THEN [sl |-> sl, r |-> FALSE, ub |-> TRUE]
        ELSE [sl |-> [length_ |-> sl.length_ + 1,
                      level_  |-> level2,
                      chain   |-> [i \in 1..kMaxLevel |->
                                     IF i <= lvl
                                     THEN InsertAt(sl.chain[i], upd2[i],
                                                   <<score, member>>)
                                     ELSE sl.chain[i]]],
              r |-> TRUE, ub |-> FALSE]

\* Skiplist::erase.  The test before the unlinking is
\*   x != nullptr || abs(x->score-score) > kDelta || x->member != member
\* so a node that was found returns false, and the end of the list (x is
\* nullptr) evaluates x->score; the unlinking below it is never reached.
erase(sl, score, member) ==
    LET update == SearchUpdate(sl, score, member)
        xi     == update[1] + 1
    IN  IF xi <= Len(sl.chain[1])
        THEN [sl |-> sl, r |-> FALSE, ub |-> FALSE]
        ELSE [sl |-> sl, r |-> FALSE, ub |-> TRUE]

\* norm of rangeByRank and of zrange
norm(idx, n) ==
    LET i1 == IF idx < 0 THEN n + idx ELSE idx
        i2 == IF i1 < 0 THEN 0 ELSE i1
    IN  IF i2 >= n THEN n - 1 ELSE i2

\* the members of a list of nodes
MembersOf(c) == [i \in 1..Len(c) |-> c[i][2]]

rangeByRank(sl, start, stop) ==
    LET n == sl.length_
        b == norm(start, n)
        e == norm(stop, n)
        c == sl.chain[1]
    IN  IF n = 0 \/ b > e THEN <<>>
        ELSE MembersOf(SubSeq(c, b + 1, IF e + 1 <= Len(c) THEN e + 1 ELSE Len(c)))

toVector(sl) == sl.chain[1]

---------------------------------------------------------------------------
(* Ordered-set operations *)

NewZSetRecord ==
    [use_skiplist |-> FALSE, items |-> <<>>, sl |-> <<>>,
     member_to_score |-> EmptyMap, expire_at_ms |-> -1]

\* the comparator handed to std::lower_bound in zadd
zaddLess(a, b) ==
    IF Abs(a[1] - b[1]) > kDelta THEN a[1] < b[1] ELSE StrLess(a[2], b[2])

\* std::lower_bound: the binary search over [first, first + len), 0-based
RECURSIVE lower_bound(_, _, _, _)
lower_bound(vec, val, first, len) ==
    IF len <= 0 THEN first
    ELSE LET half   == len \div 2
             middle == first + half
         IN  IF zaddLess(vec[middle + 1], val)
             THEN lower_bound(vec, val, middle + 1, len - half - 1)
             ELSE lower_bound(vec, val, first, half)

\* the first index of vec holding exactly <<score, member>>, or 0
FindExact(vec, score, member) ==
    LET hits == {i \in 1..Len(vec) : vec[i][1] = score /\ vec[i][2] = member}
    IN  IF hits = {} THEN 0 ELSE CHOOSE i \in hits : \A j \in hits : i <= j

\* the migration loop: every pair of vec is inserted into the new skiplist
RECURSIVE migrate(_, _, _)
migrate(sl, vec, lvls) ==
    IF vec = <<>> THEN [sl |-> sl, ub |-> FALSE]
    ELSE LET i == insert(sl, Head(vec)[1], Head(vec)[2], Head(lvls))
         IN  IF i.ub THEN [sl |-> sl, ub |-> TRUE]
             ELSE migrate(i.sl, Tail(vec), Tail(lvls))

\* vec.insert(lower_bound(...)) and the switch to the skiplist when the
\* vector has grown past the threshold: the record after, and ub
insertSorted(rec, score, member, lvls) ==
    LET vec == InsertAt(rec.items,
                        lower_bound(rec.items, <<score, member>>, 0,
                                    Len(rec.items)),
                        <<score, member>>)
    IN  IF Len(vec) > kZsetVectorThreshold
        THEN LET m == migrate(NewSkiplist, vec, lvls)
             IN  [rec |-> [rec EXCEPT !.use_skiplist = TRUE,
                                      !.sl = <<m.sl>>,
                                      !.items = <<>>],
                  ub |-> m.ub]
        ELSE [rec |-> [rec EXCEPT !.items = vec], ub |-> FALSE]

\* zadd; lvls are the values randomLevel() returns, in the order of the calls.
\* [s, r, ub]
zadd(s, key, score, member, lvls, now_ms) ==
    LET s1  == cleanupIfExpiredZSet(s, key, now_ms)
        rec == IF key \in DOMAIN s1.zmap_ THEN s1.zmap_[key] ELSE NewZSetRecord
        with(r2) == [s1 EXCEPT !.zmap_ = MapPut(@, key, r2)]
    IN  IF member \notin DOMAIN rec.member_to_score
        THEN IF ~rec.use_skiplist
             THEN LET v == insertSorted(rec, score, member, lvls)
                  IN  [s |-> with([v.rec EXCEPT !.member_to_score =
                                       MapPut(@, member, score)]),
                       r |-> 1, ub |-> v.ub]
             ELSE LET i == insert(rec.sl[1], score, member, Head(lvls))
                  IN  [s |-> with([rec EXCEPT !.sl = <<i.sl>>,
                                              !.member_to_score =
                                                  MapPut(@, member, score)]),
                       r |-> 1, ub |-> i.ub]
        ELSE LET old == rec.member_to_score[member]
             IN  IF old = score THEN [s |-> with(rec), r |-> 0, ub |-> FALSE]
                 ELSE IF ~rec.use_skiplist
                 THEN LET at  == FindExact(rec.items, old, member)
                          cut == IF at = 0 THEN rec.items
                                 ELSE RemoveAt(rec.items, at)
                          v   == insertSorted([rec EXCEPT !.items = cut],
                                              score, member, lvls)
                      IN  [s |-> with([v.rec EXCEPT !.member_to_score =
                                           MapPut(@, member, score)]),
                           r |-> 0, ub |-> v.ub]
                 ELSE LET e == erase(rec.sl[1], old, member)
                          i == insert(e.sl, score, member, Head(lvls))
                      IN  [s |-> with([rec EXCEPT !.sl = <<i.sl>>,
                                                  !.member_to_score =
                                                      MapPut(@, member, score)]),
                           r |-> 0, ub |-> e.ub \/ i.ub]

\* the loop of zrem over the members: [rec, removed, ub]
RECURSIVE zremMembers(_, _)
zremMembers(rec, ms) ==
    IF ms = <<>> THEN [rec |-> rec, removed |-> 0, ub |-> FALSE]
    ELSE LET m == Head(ms)
         IN  IF m \notin DOMAIN rec.member_to_score
             THEN zremMembers(rec, Tail(ms))
             ELSE LET sc   == rec.member_to_score[m]
                      rec1 == [rec EXCEPT !.member_to_score = MapErase(@, m)]
                  IN  IF ~rec.use_skiplist
                      THEN LET at   == FindExact(rec1.items, sc, m)
                               rec2 == IF at = 0 THEN rec1
                                       ELSE [rec1 EXCEPT !.items =
                                                RemoveAt(@, at)]
                               rest == zremMembers(rec2, Tail(ms))
                           IN  [rec |-> rest.rec,
                                removed |-> rest.removed +
                                            (IF at = 0 THEN 0 ELSE 1),
                                ub |-> rest.ub]
                      ELSE LET e == erase(rec1.sl[1], sc, m)
                           IN  IF e.ub
                               THEN [rec |-> rec1, removed |-> 0, ub |-> TRUE]
                               ELSE LET rest == zremMembers(
                                                  [rec1 EXCEPT !.sl = <<e.sl>>],
                                                  Tail(ms))
                                    IN  [rec |-> rest.rec,
                                         removed |-> rest.removed +
                                                     (IF e.r THEN 1 ELSE 0),
                                         ub |-> rest.ub]

zrem(s, key, members, now_ms) ==
    LET s1 == cleanupIfExpiredZSet(s, key, now_ms)
    IN  IF key \notin DOMAIN s1.zmap_ THEN [s |-> s1, r |-> 0, ub |-> FALSE]
        ELSE LET d     == zremMembers(s1.zmap_[key], members)
                 empty == IF ~d.rec.use_skiplist THEN d.rec.items = <<>>
                          ELSE d.rec.sl[1].length_ = 0
             IN  [s |-> [s1 EXCEPT !.zmap_ =
                            IF empty THEN MapErase(@, key)
                            ELSE MapPut(@, key, d.rec)],
                  r |-> d.removed, ub |-> d.ub]

zrange(s, key, start, stop, now_ms) ==
    LET s1 == cleanupIfExpiredZSet(s, key, now_ms)
    IN  [s |-> s1,
         r |-> IF key \notin DOMAIN s1.zmap_ THEN <<>>
               ELSE LET rec == s1.zmap_[key]
                        n   == Len(rec.items)
                        b   == norm(start, n)
                        e   == norm(stop, n)
                    IN  IF ~rec.use_skiplist
                        THEN IF n = 0 \/ b > e THEN <<>>
                             ELSE MembersOf(SubSeq(rec.items, b + 1, e + 1))
                        ELSE rangeByRank(rec.sl[1], start, stop)]

zscore(s, key, member, now_ms) ==
    LET s1 == cleanupIfExpiredZSet(s, key, now_ms)
    IN  [s |-> s1,
         r |-> IF key \notin DOMAIN s1.zmap_ THEN nullopt
               ELSE IF member \notin DOMAIN s1.zmap_[key].member_to_score
               THEN nullopt
               ELSE Some(s1.zmap_[key].member_to_score[member])]

setZSetExpireAtMs(s, key, expire_at_ms) ==
    IF key \notin DOMAIN s.zmap_ THEN [s |-> s, r |-> FALSE]
    ELSE [s |-> [s EXCEPT !.zmap_[key].expire_at_ms = expire_at_ms,
                          !.expire_index_ = IF expire_at_ms >= 0
                                            THEN MapPut(@, key, expire_at_ms)
                                            ELSE MapErase(@, key)],
          r |-> TRUE]

---------------------------------------------------------------------------
(* Periodic expiry, snapshots and key listing *)

\* the for loop of expireScanStep.  order is the iteration order of
\* expire_index_, it the iterator (a 1-based index, Len + 1 being end()),
\* i the loop counter.
RECURSIVE scanLoop(_, _, _, _, _, _, _)
scanLoop(s, order, it, i, max_steps, now_ms, removed) ==
    IF i >= max_steps \/ order = <<>> THEN [s |-> s, r |-> removed]
    ELSE LET it1  == IF it > Len(order) THEN 1 ELSE it
             key  == order[it1]
             when == s.expire_index_[key]
         IN  IF when >= 0 /\ now_ms >= when
             THEN scanLoop([map_  |-> MapErase(s.map_, key),
                            hmap_ |-> MapErase(s.hmap_, key),
                            zmap_ |-> MapErase(s.zmap_, key),
                            expire_index_ |-> MapErase(s.expire_index_, key)],
                           RemoveAt(order, it1), it1, i + 1, max_steps,
                           now_ms, removed + 1)
             ELSE scanLoop(s, order, it1 + 1, i + 1, max_steps, now_ms,
                           removed)

\* what the for loop of expireScanStep looks at: the keys it reads through
\* the iterator, in the order of the iterations, and how often the
\* iterator is set back from end() to begin()
RECURSIVE scanTrace(_, _, _, _, _, _)
scanTrace(s, order, it, i, max_steps, now_ms) ==
    IF i >= max_steps \/ order = <<>> THEN [examined |-> <<>>, wraps |-> 0]
    ELSE LET it1  == IF it > Len(order) THEN 1 ELSE it
             w    == IF it > Len(order) THEN 1 ELSE 0
             key  == order[it1]
             when == s.expire_index_[key]
             rest == IF when >= 0 /\ now_ms >= when
                     THEN scanTrace(s, RemoveAt(order, it1), it1, i + 1,
                                    max_steps, now_ms)
                     ELSE scanTrace(s, order, it1 + 1, i + 1, max_steps,
                                    now_ms)
         IN  [examined |-> <<key>> \o rest.examined,
              wraps |-> w + rest.wraps]

\* the trace of one call of expireScanStep
expireScanTrace(s, max_steps, order, rnd, now_ms) ==
    IF max_steps <= 0 \/ DOMAIN s.expire_index_ = {}
    THEN [examined |-> <<>>, wraps |-> 0]
    ELSE scanTrace(s, order, 1 + (rnd % Len(order)), 0, max_steps, now_ms)

\* expireScanStep with one iteration more than max_steps allows
expireScanStep_OneMore(s, max_steps, order, rnd, now_ms) ==
    IF max_steps <= 0 \/ DOMAIN s.expire_index_ = {} THEN [s |-> s, r |-> 0]
    ELSE scanLoop(s, order, 1 + (rnd % Len(order)), 0, max_steps + 1,
                  now_ms, 0)

\* expireScanStep; order is the iteration order of expire_index_ and rnd
\* the value of std::rand()
expireScanStep(s, max_steps, order, rnd, now_ms) ==
    IF max_steps <= 0 \/ DOMAIN s.expire_index_ = {} THEN [s |-> s, r |-> 0]
    ELSE scanLoop(s, order, 1 + (rnd % Len(order)), 0, max_steps, now_ms, 0)

\* the ZSetFlat that the loop of snapshotZSet builds for one record
Flat(s, key) ==
    [key |-> key,
     items |-> IF ~s.zmap_[key].use_skiplist THEN s.zmap_[key].items
               ELSE toVector(s.zmap_[key].sl[1]),
     expire_at_ms |-> s.zmap_[key].expire_at_ms]

\* the local vector out of snapshotZSet when its loop has ended, as the set
\* of its elements (the order is the map's)
snapshotZSetOut(s) == {Flat(s, key) : key \in DOMAIN s.zmap_}

listKeys(s) == DOMAIN s.map_ \cup DOMAIN s.hmap_ \cup DOMAIN s.zmap_

---------------------------------------------------------------------------
(* The snapshot codec (Rdb): text.  A position in a string is 0-based, as *)
(* in the code; str[p + 1] is the byte at position p.                     *)

\* ' '
SP == 32
\* '\n'
LF == 10
\* std::string::npos
npos == -1

\* "MRDB1", "MRDB2", "STR ", "HASH ", "ZSET "
MRDB1 == <<77, 82, 68, 66, 49>>
MRDB2 == <<77, 82, 68, 66, 50>>
STR == <<83, 84, 82, 32>>
HASH == <<72, 65, 83, 72, 32>>
ZSET == <<90, 83, 69, 84, 32>>

\* the decimal digits of n >= 0
RECURSIVE Digits(_)
Digits(n) ==
    IF n < 10 THEN <<48 + n>> ELSE Digits(n \div 10) \o <<48 + (n % 10)>>

\* std::to_string of an integer
to_string(n) == IF n < 0 THEN <<45>> \o Digits(-n) ELSE Digits(n)

\* digits, zero-filled on the left to six places
RECURSIVE Pad6(_)
Pad6(q) == IF Len(q) >= 6 THEN q ELSE Pad6(<<48>> \o q)

\* std::to_string of a double prints "%f": six decimals, the rest rounded
\* away.  A score is a number of 1e-7, so its last digit is rounded (the
\* scores of the model do not end in 5, where the binary value decides).
to_string_double(score) ==
    LET micro == (Abs(score) + 5) \div 10
        txt   == Digits(micro \div 1000000) \o <<46>> \o
                 Pad6(Digits(micro % 1000000))
    IN  IF score < 0 THEN <<45>> \o txt ELSE txt

IsDigit(c) == c >= 48 /\ c <= 57

\* the 1-based index of the first byte of tok at or after i that is no digit
RECURSIVE DigitsEnd(_, _)
DigitsEnd(tok, i) ==
    IF i <= Len(tok) /\ IsDigit(tok[i]) THEN DigitsEnd(tok, i + 1) ELSE i

\* the number written by a sequence of digits
RECURSIVE ValueOf(_)
ValueOf(q) ==
    IF q = <<>> THEN 0
    ELSE 10 * ValueOf(SubSeq(q, 1, Len(q) - 1)) + (q[Len(q)] - 48)

\* std::stoi and std::stoll: an optional sign and the digits that follow;
\* std::invalid_argument when there is no digit.  (Leading white space
\* other than ' ' and '\n' does not occur in the bytes of the model.)
stoi(tok) ==
    LET neg == tok # <<>> /\ tok[1] = 45
        b   == IF tok # <<>> /\ tok[1] \in {43, 45} THEN 2 ELSE 1
        e   == DigitsEnd(tok, b)
    IN  IF e = b THEN [throw |-> TRUE, v |-> 0]
        ELSE [throw |-> FALSE,
              v |-> (IF neg THEN -1 ELSE 1) * ValueOf(SubSeq(tok, b, e - 1))]

\* seven decimals of a fraction, as a number of 1e-7
RECURSIVE Frac7(_)
Frac7(q) ==
    IF Len(q) >= 7 THEN ValueOf(SubSeq(q, 1, 7)) ELSE Frac7(q \o <<48>>)

\* std::stod: sign, digits, '.', digits; the score in units of 1e-7
stod(tok) ==
    LET neg  == tok # <<>> /\ tok[1] = 45
        b    == IF tok # <<>> /\ tok[1] \in {43, 45} THEN 2 ELSE 1
        e    == DigitsEnd(tok, b)
        dot  == e <= Len(tok) /\ tok[e] = 46
        fe   == IF dot THEN DigitsEnd(tok, e + 1) ELSE e
        int  == SubSeq(tok, b, e - 1)
        frac == IF dot THEN SubSeq(tok, e + 1, fe - 1) ELSE <<>>
    IN  IF int = <<>> /\ frac = <<>> THEN [throw |-> TRUE, v |-> 0]
        ELSE [throw |-> FALSE,
              v |-> (IF neg THEN -1 ELSE 1) *
                    (ValueOf(int) * 10000000 + Frac7(frac))]

\* std::string::find(ch, pos)
RECURSIVE find(_, _, _)
find(str, ch, pos) ==
    IF pos >= Len(str) THEN npos
    ELSE IF str[pos + 1] = ch THEN pos
    ELSE find(str, ch, pos + 1)

\* std::string::substr(pos, n): std::out_of_range when pos > size(), and
\* at most the rest of the string.  (A negative n, cast to size_t, is more
\* than any rest.)
substr(str, pos, n) ==
    IF pos > Len(str) THEN [throw |-> TRUE, v |-> <<>>]
    ELSE [throw |-> FALSE,
          v |-> IF n < 0 \/ pos + n > Len(str)
                THEN SubSeq(str, pos + 1, Len(str))
                ELSE SubSeq(str, pos + 1, pos + n)]

\* the lambda readLine of Rdb::load
readLine(data, pos) ==
    LET e == find(data, LF, pos)
    IN  IF e = npos THEN [ok |-> FALSE, out |-> <<>>, pos |-> pos]
        ELSE [ok |-> TRUE, out |-> SubSeq(data, pos + 1, e), pos |-> e + 1]

\* while (s < line.size() && line[s] == ' ') ++s
RECURSIVE SkipSpaces(_, _)
SkipSpaces(line, s) ==
    IF s < Len(line) /\ line[s + 1] = SP THEN SkipSpaces(line, s + 1) ELSE s

\* the lambdas nextTok and nextTok2 of Rdb::load: [throw, tok, p]
nextTok(line, p) ==
    LET s == SkipSpaces(line, p)
        q == find(line, SP, s)
    IN  IF q = npos
        THEN LET t == substr(line, s, Len(line))
             IN  [throw |-> t.throw, tok |-> t.v, p |-> Len(line)]
        ELSE [throw |-> FALSE, tok |-> SubSeq(line, s + 1, q), p |-> q + 1]

\* line.rfind(tag, 0) == 0
StartsWith(line, tag) ==
    Len(line) >= Len(tag) /\ SubSeq(line, 1, Len(tag)) = tag

---------------------------------------------------------------------------
(* Rdb::save.  The snapshots are sequences in the iteration order of the  *)
(* maps: of keys for the scalars and the field maps, of ZSetFlat records  *)
(* for the ordered sets.                                                  *)

\* the elements of the sequence order that are in the set S, in that order
Restrict(order, S) == SelectSeq(order, LAMBDA x : x \in S)

\* the record line of one scalar
strRec(k, r) ==
    to_string(Len(k)) \o <<SP>> \o k \o <<SP>> \o
    to_string(Len(r.value)) \o <<SP>> \o r.value \o <<SP>> \o
    to_string(r.expire_at_ms) \o <<LF>>

RECURSIVE strRecs(_, _)
strRecs(s, order) ==
    IF order = <<>> THEN <<>>
    ELSE strRec(Head(order), s.map_[Head(order)]) \o strRecs(s, Tail(order))

\* the line of one field
fieldLine(f, v) ==
    to_string(Len(f)) \o <<SP>> \o f \o <<SP>> \o
    to_string(Len(v)) \o <<SP>> \o v \o <<LF>>

RECURSIVE fieldLines(_, _)
fieldLines(fields, order) ==
    IF order = <<>> THEN <<>>
    ELSE fieldLine(Head(order), fields[Head(order)]) \o
         fieldLines(fields, Tail(order))

\* the head line of one field map and its field lines
hashRec(k, r, forder) ==
    to_string(Len(k)) \o <<SP>> \o k \o <<SP>> \o
    to_string(r.expire_at_ms) \o <<SP>> \o
    to_string(Cardinality(DOMAIN r.fields)) \o <<LF>> \o
    fieldLines(r.fields, Restrict(forder, DOMAIN r.fields))

\* forder[k] is the iteration order of the fields of hmap_[k]
RECURSIVE hashRecs(_, _, _)
hashRecs(s, order, forder) ==
    IF order = <<>> THEN <<>>
    ELSE hashRec(Head(order), s.hmap_[Head(order)], forder[Head(order)]) \o
         hashRecs(s, Tail(order), forder)

RECURSIVE itemLines(_)
itemLines(items) ==
    IF items = <<>> THEN <<>>
    ELSE to_string_double(Head(items)[1]) \o <<SP>> \o
         to_string(Len(Head(items)[2])) \o <<SP>> \o Head(items)[2] \o
         <<LF>> \o itemLines(Tail(items))

\* the head line of one ordered set and its item lines
zsetRec(flat) ==
    to_string(Len(flat.key)) \o <<SP>> \o flat.key \o <<SP>> \o
    to_string(flat.expire_at_ms) \o <<SP>> \o
    to_string(Len(flat.items)) \o <<LF>> \o itemLines(flat.items)

RECURSIVE zsetRecs(_)
zsetRecs(snap_zset) ==
    IF snap_zset = <<>> THEN <<>>
    ELSE zsetRec(Head(snap_zset)) \o zsetRecs(Tail(snap_zset))

\* the bytes Rdb::save writes to the file
save(s, snap_str, snap_hash, forder, snap_zset) ==
    MRDB2 \o <<LF>> \o
    STR \o to_string(Len(snap_str)) \o <<LF>> \o
    strRecs(s, snap_str) \o
    HASH \o to_string(Len(snap_hash)) \o <<LF>> \o
    hashRecs(s, snap_hash, forder) \o
    ZSET \o to_string(Len(snap_zset)) \o <<LF>> \o
    zsetRecs(snap_zset)

---------------------------------------------------------------------------
(* Rdb::load.  st says how a part of the function ended: "ok" (go on),    *)
(* "false" (it returns false), "throw" (std::stoi, std::stod or substr    *)
(* throws and the exception leaves Rdb::load), "ub" (zadd runs into       *)
(* undefined behaviour).                                                  *)

\* F(e), with e evaluated once and handed over by value
Bind(e, F(_)) == CHOOSE r \in {F(x) : x \in {e}} : TRUE

\* the parse of one line: the position p, whether a call has thrown, and
\* the values read so far
Cursor(line) == [line |-> line, p |-> 0, throw |-> FALSE, out |-> <<>>]

\* nextTok(tok); int n = std::stoi(tok)  (and std::stoll)
ReadInt(cur) ==
    Bind(cur, LAMBDA c :
    IF c.throw THEN c
    ELSE Bind(nextTok(c.line, c.p), LAMBDA t :
         Bind(stoi(t.tok), LAMBDA n :
         [c EXCEPT !.p = t.p, !.throw = t.throw \/ n.throw,
                   !.out = Append(@, n.v)])))

\* nextTok2(score_s); double sc = std::stod(score_s)
ReadDouble(cur) ==
    Bind(cur, LAMBDA c :
    IF c.throw THEN c
    ELSE Bind(nextTok(c.line, c.p), LAMBDA t :
         Bind(stod(t.tok), LAMBDA x :
         [c EXCEPT !.p = t.p, !.throw = t.throw \/ x.throw,
                   !.out = Append(@, x.v)])))

\* str = line.substr(p, n); p += n + 1; n being the length read last
ReadBytes(cur) ==
    Bind(cur, LAMBDA c :
    IF c.throw THEN c
    ELSE Bind(c.out[Len(c.out)], LAMBDA n :
         Bind(substr(c.line, c.p, n), LAMBDA v :
         [c EXCEPT !.p = @ + n + 1, !.throw = v.throw,
                   !.out = Append(@, v.v)])))

\* len SP key SP len SP value SP expire_at_ms
\* out = <<klen, key, vlen, val, exp>>
parseStrRec(line) ==
    ReadInt(ReadBytes(ReadInt(ReadBytes(ReadInt(Cursor(line))))))

\* the loop over the records of the STR section (and of an MRDB1 file)
RECURSIVE loadStr(_, _, _, _)
loadStr(s, data, pos, count) ==
    IF count <= 0 THEN [st |-> "ok", s |-> s, pos |-> pos]
    ELSE LET l == readLine(data, pos)
         IN  IF ~l.ok THEN [st |-> "false", s |-> s, pos |-> pos]
             ELSE Bind(parseStrRec(l.out), LAMBDA rec :
                  IF rec.throw THEN [st |-> "throw", s |-> s, pos |-> pos]
                  ELSE loadStr(setWithExpireAtMs(s, rec.out[2], rec.out[4],
                                                 rec.out[5]).s,
                               data, l.pos, count - 1))

\* len SP key SP expire_at_ms SP count
\* out = <<klen, key, exp, count>>
parseHead(line) == ReadInt(ReadInt(ReadBytes(ReadInt(Cursor(line)))))

\* len SP field SP len SP value
\* out = <<flen, field, vlen, val>>
parseField(line) == ReadBytes(ReadInt(ReadBytes(ReadInt(Cursor(line)))))

\* the loop over the field lines of one field map: the vector fvs
RECURSIVE loadFields(_, _, _, _)
loadFields(data, pos, nf, fvs) ==
    IF nf <= 0 THEN [st |-> "ok", fvs |-> fvs, pos |-> pos]
    ELSE LET l == readLine(data, pos)
         IN  IF ~l.ok THEN [st |-> "false", fvs |-> fvs, pos |-> pos]
             ELSE Bind(parseField(l.out), LAMBDA f :
                  IF f.throw THEN [st |-> "throw", fvs |-> fvs, pos |-> pos]
                  ELSE loadFields(data, l.pos, nf - 1,
                                  Append(fvs, <<f.out[2], f.out[4]>>)))

\* for (fv : fvs) store.hset(key, fv.first, fv.second)
RECURSIVE hsetAll(_, _, _, _)
hsetAll(s, key, fvs, now_ms) ==
    IF fvs = <<>> THEN s
    ELSE hsetAll(hset(s, key, Head(fvs)[1], Head(fvs)[2], now_ms).s, key,
                 Tail(fvs), now_ms)

\* if (has_any) { the hset calls; if (exp >= 0) setHashExpireAtMs }
restoreHash(s, key, exp, fvs, now_ms) ==
    IF fvs = <<>> THEN s
    ELSE IF exp >= 0
    THEN setHashExpireAtMs(hsetAll(s, key, fvs, now_ms), key, exp).s
    ELSE hsetAll(s, key, fvs, now_ms)

\* the loop over the records of the HASH section
RECURSIVE loadHash(_, _, _, _, _)
loadHash(s, data, pos, count, now_ms) ==
    IF count <= 0 THEN [st |-> "ok", s |-> s, pos |-> pos]
    ELSE LET l == readLine(data, pos)
         IN  IF ~l.ok THEN [st |-> "false", s |-> s, pos |-> pos]
             ELSE Bind(parseHead(l.out), LAMBDA h :
                  IF h.throw THEN [st |-> "throw", s |-> s, pos |-> pos]
                  ELSE Bind(loadFields(data, l.pos, h.out[4], <<>>), LAMBDA fs :
                       IF fs.st # "ok"
                       THEN [st |-> fs.st, s |-> s, pos |-> pos]
                       ELSE loadHash(restoreHash(s, h.out[2], h.out[3],
                                                 fs.fvs, now_ms),
                                     data, fs.pos, count - 1, now_ms)))

\* score SP len SP member
\* out = <<score, mlen, member>>
parseItem(line) == ReadBytes(ReadInt(ReadDouble(Cursor(line))))

\* the loop over the item lines of one ordered set, a zadd for each.  Every
\* call of randomLevel() returns lvl.
RECURSIVE loadItems(_, _, _, _, _, _, _)
loadItems(s, data, pos, key, ni, lvl, now_ms) ==
    IF ni <= 0 THEN [st |-> "ok", s |-> s, pos |-> pos]
    ELSE LET l == readLine(data, pos)
             lvls == [i \in 1..(kZsetVectorThreshold + 1) |-> lvl]
         IN  IF ~l.ok THEN [st |-> "false", s |-> s, pos |-> pos]
             ELSE Bind(parseItem(l.out), LAMBDA it :
                  IF it.throw THEN [st |-> "throw", s |-> s, pos |-> pos]
                  ELSE Bind(zadd(s, key, it.out[1], it.out[3], lvls, now_ms),
                            LAMBDA z :
                       IF z.ub THEN [st |-> "ub", s |-> s, pos |-> pos]
                       ELSE loadItems(z.s, data, l.pos, key, ni - 1, lvl,
                                      now_ms)))

\* if (exp >= 0) store.setZSetExpireAtMs(key, exp)
restoreZSetExpire(s, key, exp) ==
    IF exp >= 0 THEN setZSetExpireAtMs(s, key, exp).s ELSE s

\* the loop over the records of the ZSET section
RECURSIVE loadZSet(_, _, _, _, _, _)
loadZSet(s, data, pos, count, lvl, now_ms) ==
    IF count <= 0 THEN [st |-> "ok", s |-> s, pos |-> pos]
    ELSE LET l == readLine(data, pos)
         IN  IF ~l.ok THEN [st |-> "false", s |-> s, pos |-> pos]
             ELSE Bind(parseHead(l.out), LAMBDA h :
                  IF h.throw THEN [st |-> "throw", s |-> s, pos |-> pos]
                  ELSE Bind(loadItems(s, data, l.pos, h.out[2], h.out[4], lvl,
                                      now_ms), LAMBDA is :
                       IF is.st # "ok"
                       THEN [st |-> is.st, s |-> is.s, pos |-> pos]
                       ELSE loadZSet(restoreZSetExpire(is.s, h.out[2],
                                                       h.out[3]),
                                     data, is.pos, count - 1, lvl, now_ms)))

\* a section starts with its tag line, which holds the count of its records
section(data, pos, tag) ==
    LET l == readLine(data, pos)
        n == stoi(SubSeq(l.out, Len(tag) + 1, Len(l.out)))
    IN  IF ~l.ok \/ ~StartsWith(l.out, tag)
        THEN [st |-> "false", n |-> 0, pos |-> pos]
        ELSE IF n.throw THEN [st |-> "throw", n |-> 0, pos |-> pos]
        ELSE [st |-> "ok", n |-> n.v, pos |-> l.pos]

\* the ZSET section, the last one: Rdb::load returns true after it
sectionZSet(s, data, pos, lvl, now_ms) ==
    LET c == section(data, pos, ZSET)
    IN  IF c.st # "ok" THEN [st |-> c.st, s |-> s]
        ELSE Bind(loadZSet(s, data, c.pos, c.n, lvl, now_ms), LAMBDA r :
             [st |-> IF r.st = "ok" THEN "true" ELSE r.st, s |-> r.s])

\* the HASH section and what follows it
sectionHash(s, data, pos, lvl, now_ms) ==
    LET c == section(data, pos, HASH)
    IN  IF c.st # "ok" THEN [st |-> c.st, s |-> s]
        ELSE Bind(loadHash(s, data, c.pos, c.n, now_ms), LAMBDA r :
             IF r.st # "ok" THEN [st |-> r.st, s |-> r.s]
             ELSE sectionZSet(r.s, data, r.pos, lvl, now_ms))

\* the STR section and what follows it
sectionStr(s, data, pos, lvl, now_ms) ==
    LET c == section(data, pos, STR)
    IN  IF c.st # "ok" THEN [st |-> c.st, s |-> s]
        ELSE Bind(loadStr(s, data, c.pos, c.n), LAMBDA r :
             IF r.st # "ok" THEN [st |-> r.st, s |-> r.s]
             ELSE sectionHash(r.s, data, r.pos, lvl, now_ms))

\* the branch of Rdb::load for an MRDB1 file: scalars only
loadV1(s, data, pos) ==
    LET l == readLine(data, pos)
        n == stoi(l.out)
        r == loadStr(s, data, l.pos, n.v)
    IN  IF ~l.ok THEN [st |-> "false", s |-> s]
        ELSE IF n.throw THEN [st |-> "throw", s |-> s]
        ELSE [st |-> IF r.st = "ok" THEN "true" ELSE r.st, s |-> r.s]

\* Rdb::load of the bytes data into the store s: [st, s], st being "true",
\* "false", "throw" or "ub"
load(s, data, lvl, now_ms) ==
    LET l0 == readLine(data, 0)
    IN  IF ~l0.ok THEN [st |-> "false", s |-> s]
        ELSE IF l0.out = MRDB1 THEN loadV1(s, data, l0.pos)
        ELSE IF l0.out # MRDB2 THEN [st |-> "false", s |-> s]
        ELSE sectionStr(s, data, l0.pos, lvl, now_ms)

---------------------------------------------------------------------------
(* The replication client (ReplicaClient::threadMain).  A frame v that the *)
(* parser hands over has a type ("bulk", "array", "simple", "error",      *)
(* "integer"), the text bulk and, for an array, the texts array of its    *)
(* elements.                                                              *)

\* "SET", "DEL", "EXPIRE", "HSET", "HDEL", "ZADD", "ZREM"
SET == <<83, 69, 84>>
DEL == <<68, 69, 76>>
EXPIRE == <<69, 88, 80, 73, 82, 69>>
HSET == <<72, 83, 69, 84>>
HDEL == <<72, 68, 69, 76>>
ZADD == <<90, 65, 68, 68>>
ZREM == <<90, 82, 69, 77>>

\* "OFFSET "
OFFSET == <<79, 70, 70, 83, 69, 84, 32>>

\* "SYNC", "PSYNC"
SYNC == <<83, 89, 78, 67>>
PSYNC == <<80, 83, 89, 78, 67>>

\* ::toupper in the "C" locale
toupper(c) == IF c >= 97 /\ c <= 122 THEN c - 32 ELSE c

\* cmd.push_back(toupper(c)) for every c of the first element
Upper(str) == [i \in 1..Len(str) |-> toupper(str[i])]

\* the first frame the client sends after it has connected
firstFrame(last_offset) ==
    IF last_offset > 0 THEN <<PSYNC, to_string(last_offset)>> ELSE <<SYNC>>

\* what a frame leaves: the store, last_offset_, the snapshot file, and how
\* the thread goes on: "loop", "return" (it ends), "terminate" (an
\* exception leaves the thread function), "ub"
Handled(s, off, f, end) == [s |-> s, off |-> off, file |-> f, end |-> end]

\* the bulk-string branch: the payload is written to the snapshot file and
\* loaded into g_store by Rdb::load, whose result is not looked at
onBulk(s, off, f, v, opened, lvl, now_ms) ==
    IF ~opened THEN Handled(s, off, f, "return")
    ELSE Bind(load(s, v.bulk, lvl, now_ms), LAMBDA l :
         Handled(l.s, off, Some(v.bulk),
                 IF l.st = "throw" THEN "terminate"
                 ELSE IF l.st = "ub" THEN "ub" ELSE "loop"))

\* the "+OFFSET <num>" test, the last else-if of the array branch: it is
\* evaluated for a frame of type array only
onOffset(s, off, f, v) ==
    IF v.type = "simple" /\ StartsWith(v.bulk, OFFSET)
    THEN Bind(substr(v.bulk, 8, npos), LAMBDA t :
         Bind(stoi(t.v), LAMBDA n :
         Handled(s, IF t.throw \/ n.throw THEN off ELSE n.v, f, "loop")))
    ELSE Handled(s, off, f, "loop")

\* the array branch: the command is applied to g_store
onArray(s, off, f, v, lvl, now_ms) ==
    LET a    == v.array
        n    == Len(a)
        cmd  == IF n = 0 THEN <<>> ELSE Upper(a[1])
        lvls == [i \in 1..(kZsetVectorThreshold + 1) |-> lvl]
    IN  IF n = 0 THEN Handled(s, off, f, "loop")
        ELSE IF cmd = SET /\ n = 3
        THEN Handled(set(s, a[2], a[3], nullopt, now_ms).s, off, f, "loop")
        ELSE IF cmd = DEL /\ n >= 2
        THEN Handled(del(s, Tail(a), now_ms).s, off, f, "loop")
        ELSE IF cmd = EXPIRE /\ n = 3
        THEN Bind(stoi(a[3]), LAMBDA sec :
             IF sec.throw THEN Handled(s, off, f, "terminate")
             ELSE Handled(expire(s, a[2], sec.v, now_ms).s, off, f, "loop"))
        ELSE IF cmd = HSET /\ n = 4
        THEN Handled(hset(s, a[2], a[3], a[4], now_ms).s, off, f, "loop")
        ELSE IF cmd = HDEL /\ n >= 3
        THEN Handled(hdel(s, a[2], SubSeq(a, 3, n), now_ms).s, off, f,
                     "loop")
        ELSE IF cmd = ZADD /\ n = 4
        THEN Bind(stod(a[3]), LAMBDA sc :
             IF sc.throw THEN Handled(s, off, f, "terminate")
             ELSE Bind(zadd(s, a[2], sc.v, a[4], lvls, now_ms), LAMBDA z :
                  Handled(z.s, off, f, IF z.ub THEN "ub" ELSE "loop")))
        ELSE IF cmd = ZREM /\ n >= 3
        THEN Bind(zrem(s, a[2], SubSeq(a, 3, n), now_ms), LAMBDA z :
             Handled(z.s, off, f, IF z.ub THEN "ub" ELSE "loop"))
        ELSE onOffset(s, off, f, v)

\* the body of the loop over the frames parsed from the connection
onFrame(s, off, f, v, opened, lvl, now_ms) ==
    IF v.type = "bulk" THEN onBulk(s, off, f, v, opened, lvl, now_ms)
    ELSE IF v.type = "array" THEN onArray(s, off, f, v, lvl, now_ms)
    ELSE Handled(s, off, f, "loop")

\* "PX", "EX"
PX == <<80, 88>>
EX == <<69, 88>>

\* The engine call a client command maps to on the primary, and the store
\* it leaves: SET key value [EX s|PX ms], DEL key..., EXPIRE key seconds,
\* HSET key field value, HDEL key field..., ZADD key score member,
\* ZREM key member...  (every randomLevel() of the primary returns 1)
execute(s, a, now_ms) ==
    LET n    == Len(a)
        cmd  == Upper(a[1])
        lvls == [i \in 1..(kZsetVectorThreshold + 1) |-> 1]
    IN  IF cmd = SET /\ n = 3
        THEN set(s, a[2], a[3], nullopt, now_ms).s
        ELSE IF cmd = SET /\ n = 5 /\ Upper(a[4]) = PX
        THEN set(s, a[2], a[3], Some(stoi(a[5]).v), now_ms).s
        ELSE IF cmd = SET /\ n = 5 /\ Upper(a[4]) = EX
        THEN set(s, a[2], a[3], Some(1000 * stoi(a[5]).v), now_ms).s
        ELSE IF cmd = DEL /\ n >= 2 THEN del(s, Tail(a), now_ms).s
        ELSE IF cmd = EXPIRE /\ n = 3
        THEN expire(s, a[2], stoi(a[3]).v, now_ms).s
        ELSE IF cmd = HSET /\ n = 4
        THEN hset(s, a[2], a[3], a[4], now_ms).s
        ELSE IF cmd = HDEL /\ n >= 3
        THEN hdel(s, a[2], SubSeq(a, 3, n), now_ms).s
        ELSE IF cmd = ZADD /\ n = 4
        THEN zadd(s, a[2], stod(a[3]).v, a[4], lvls, now_ms).s
        ELSE IF cmd = ZREM /\ n >= 3
        THEN zrem(s, a[2], SubSeq(a, 3, n), now_ms).s
        ELSE s

---------------------------------------------------------------------------
(* Inputs *)

\* "k" and "j"
Keys == {<<107>>, <<106>>}

\* "v"
Values == {<<118>>}

\* "f" and "g"
Fields == {<<102>>, <<103>>}

\* "a", "b", ... : one more member than the threshold, so that an ordered
\* set can outgrow the vector
Members == {<<96 + i>> : i \in 1..(kZsetVectorThreshold + 1)}

\* 0, 0.0000008 and 0.0000016: neighbours lie within kDelta, the ends do not
Scores == {0, 8, 16}

\* the ttl_ms argument of set
TtlMs == {nullopt, Some(1)}

\* the ttl_seconds argument of expire
TtlSeconds == {-1, 0, 1}

\* the expire_at_ms argument of the set...ExpireAtMs methods
ExpireAts == {-1, 1}

\* the sequences of at most n elements of S, without the empty one
RECURSIVE SeqsUpTo(_, _)
SeqsUpTo(S, n) ==
    IF n = 0 THEN {}
    ELSE {<<x>> : x \in S} \cup
         {<<x>> \o q : x \in S, q \in SeqsUpTo(S, n - 1)}

\* the orders in which the elements of the set S can be iterated
RECURSIVE Orders(_)
Orders(S) ==
    IF S = {} THEN {<<>>}
    ELSE UNION {{<<x>> \o q : q \in Orders(S \ {x})} : x \in S}

\* the values std::rand() % size can take are covered by 0..size-1
Rands(n) == 0..(n - 1)

\* the values the n calls of randomLevel() in one zadd can return
LevelSeqs(n) == [1..n -> 1..MaxSampledLevel]

\* how often zadd(key, ., member) calls randomLevel(): once per pair moved to
\* the skiplist when the vector outgrows the threshold, once for an insert
\* into the skiplist, else never
LevelCalls(key, member) ==
    IF key \notin DOMAIN zmap_ THEN 0
    ELSE IF zmap_[key].use_skiplist THEN 1
    ELSE IF /\ member \notin DOMAIN zmap_[key].member_to_score
            /\ Len(zmap_[key].items) = kZsetVectorThreshold
         THEN kZsetVectorThreshold + 1
         ELSE 0

\* the model stops adding to a skiplist that holds MaxStale nodes more than
\* there are members
SkiplistFull(key) ==
    /\ key \in DOMAIN zmap_
    /\ zmap_[key].use_skiplist
    /\ zmap_[key].sl[1].length_ >= Cardinality(Members) + MaxStale

---------------------------------------------------------------------------
(* Actions: one per public method, applied to the engine *)

SetStore(s) ==
    /\ map_' = s.map_
    /\ hmap_' = s.hmap_
    /\ zmap_' = s.zmap_
    /\ expire_index_' = s.expire_index_

\* an operation returns: the store it leaves and the record of the call,
\* which also says whether the call changed the store
Return(res, call) ==
    \E x \in {res} :
        /\ SetStore(x.s)
        /\ ret' = call @@ [changed |-> x.s # Store]
        /\ UNCHANGED <<now, file, crashed, last_offset_, outside>>

\* an operation that may run into undefined behaviour: the process dies
ReturnOrCrash(res, call) ==
    \E x \in {res} :
        IF x.ub
        THEN /\ crashed' = TRUE
             /\ ret' = [op |-> "crash", call |-> call]
             /\ UNCHANGED <<map_, hmap_, zmap_, expire_index_, now, file,
                            last_offset_, outside>>
        ELSE Return(x, call)

Tick ==
    /\ ~crashed
    /\ now < MaxNow
    /\ now' = now + 1
    /\ ret' = [op |-> "tick"]
    /\ UNCHANGED <<map_, hmap_, zmap_, expire_index_, file, crashed,
                   last_offset_, outside>>

Set(K, V) ==
    \E key \in K, value \in V, ttl_ms \in TtlMs :
        /\ ~crashed
        /\ LET res == set(Store, key, value, ttl_ms, now)
           IN  Return(res, [op |-> "set", key |-> key, value |-> value,
                            ttl_ms |-> ttl_ms, r |-> res.r])

SetWithExpireAtMs(K, V) ==
    \E key \in K, value \in V, e \in ExpireAts :
        /\ ~crashed
        /\ LET res == setWithExpireAtMs(Store, key, value, e)
           IN  Return(res, [op |-> "setWithExpireAtMs", key |-> key,
                            value |-> value, expire_at_ms |-> e, r |-> res.r])

Get(K) ==
    \E key \in K :
        /\ ~crashed
        /\ LET res == get(Store, key, now)
           IN  Return(res, [op |-> "get", key |-> key, r |-> res.r])

Del(K) ==
    \E keys \in SeqsUpTo(K, MaxArgs) :
        /\ ~crashed
        /\ LET res == del(Store, keys, now)
           IN  Return(res, [op |-> "del", keys |-> keys, r |-> res.r])

Exists(K) ==
    \E key \in K :
        /\ ~crashed
        /\ LET res == exists(Store, key, now)
           IN  Return(res, [op |-> "exists", key |-> key, r |-> res.r])

Expire(K) ==
    \E key \in K, ttl_seconds \in TtlSeconds :
        /\ ~crashed
        /\ LET res == expire(Store, key, ttl_seconds, now)
           IN  Return(res, [op |-> "expire", key |-> key,
                            ttl_seconds |-> ttl_seconds, r |-> res.r])

Ttl(K) ==
    \E key \in K :
        /\ ~crashed
        /\ LET res == ttl(Store, key, now)
           IN  Return(res, [op |-> "ttl", key |-> key, r |-> res.r])

HSet(K, F, V) ==
    \E key \in K, field \in F, value \in V :
        /\ ~crashed
        /\ LET res == hset(Store, key, field, value, now)
           IN  Return(res, [op |-> "hset", key |-> key, field |-> field,
                            value |-> value, r |-> res.r])

HGet(K, F) ==
    \E key \in K, field \in F :
        /\ ~crashed
        /\ LET res == hget(Store, key, field, now)
           IN  Return(res, [op |-> "hget", key |-> key, field |-> field,
                            r |-> res.r])

HDel(K, F) ==
    \E key \in K, fields \in SeqsUpTo(F, MaxArgs) :
        /\ ~crashed
        /\ LET res == hdel(Store, key, fields, now)
           IN  Return(res, [op |-> "hdel", key |-> key, fields |-> fields,
                            r |-> res.r])

HExists(K, F) ==
    \E key \in K, field \in F :
        /\ ~crashed
        /\ LET res == hexists(Store, key, field, now)
           IN  Return(res, [op |-> "hexists", key |-> key, field |-> field,
                            r |-> res.r])

HGetAll(K) ==
    \E key \in K :
        /\ ~crashed
        /\ LET res == hgetallFlat(Store, key, now)
           IN  Return(res, [op |-> "hgetall", key |-> key, r |-> res.r])

HLen(K) ==
    \E key \in K :
        /\ ~crashed
        /\ LET res == hlen(Store, key, now)
           IN  Return(res, [op |-> "hlen", key |-> key, r |-> res.r])

SetHashExpireAtMs(K) ==
    \E key \in K, e \in ExpireAts :
        /\ ~crashed
        /\ LET res == setHashExpireAtMs(Store, key, e)
           IN  Return(res, [op |-> "setHashExpireAtMs", key |-> key,
                            expire_at_ms |-> e, r |-> res.r])

ZAdd(K, P) ==
    \E key \in K, pair \in P :
      \E lvls \in LevelSeqs(LevelCalls(key, pair[2])) :
        /\ ~crashed
        /\ ~SkiplistFull(key)
        /\ \E res \in {zadd(Store, key, pair[1], pair[2], lvls, now)} :
               ReturnOrCrash(res, [op |-> "zadd", key |-> key,
                                   score |-> pair[1], member |-> pair[2],
                                   r |-> res.r])

ZRem(K, M) ==
    \E key \in K, members \in SeqsUpTo(M, MaxArgs) :
        /\ ~crashed
        /\ LET res == zrem(Store, key, members, now)
           IN  ReturnOrCrash(res, [op |-> "zrem", key |-> key,
                                   members |-> members, r |-> res.r])

ZRange(K, I) ==
    \E key \in K, start \in I, stop \in I :
        /\ ~crashed
        /\ LET res == zrange(Store, key, start, stop, now)
           IN  Return(res, [op |-> "zrange", key |-> key, start |-> start,
                            stop |-> stop, r |-> res.r])

ZScore(K, M) ==
    \E key \in K, member \in M :
        /\ ~crashed
        /\ LET res == zscore(Store, key, member, now)
           IN  Return(res, [op |-> "zscore", key |-> key, member |-> member,
                            r |-> res.r])

SetZSetExpireAtMs(K) ==
    \E key \in K, e \in ExpireAts :
        /\ ~crashed
        /\ LET res == setZSetExpireAtMs(Store, key, e)
           IN  Return(res, [op |-> "setZSetExpireAtMs", key |-> key,
                            expire_at_ms |-> e, r |-> res.r])

ExpireScanStep(N) ==
    \E max_steps \in N, order \in Orders(DOMAIN expire_index_) :
        \E rnd \in Rands(IF order = <<>> THEN 1 ELSE Len(order)) :
            /\ ~crashed
            /\ LET res == expireScanStep(Store, max_steps, order, rnd, now)
                   tr  == expireScanTrace(Store, max_steps, order, rnd, now)
               IN  Return(res, [op |-> "expireScanStep",
                                max_steps |-> max_steps, r |-> res.r,
                                examined |-> tr.examined,
                                wraps |-> tr.wraps])

ListKeys ==
    /\ ~crashed
    /\ ret' = [op |-> "listKeys", r |-> listKeys(Store)]
    /\ UNCHANGED <<map_, hmap_, zmap_, expire_index_, now, file, crashed,
                   last_offset_, outside>>

\* snapshotZSet fills its local vector out and then flows off the end of a
\* function that returns a vector.  What the caller receives is not
\* defined: the vector out, an indeterminate vector (here: any part of
\* out), or the process dies.
SnapshotZSet ==
    \E outcome \in {"out", "indeterminate", "crash"} :
        /\ ~crashed
        /\ CASE outcome = "out" ->
                   /\ ret' = [op |-> "snapshotZSet",
                              r |-> snapshotZSetOut(Store)]
                   /\ UNCHANGED crashed
             [] outcome = "indeterminate" ->
                   /\ \E part \in SUBSET snapshotZSetOut(Store) :
                          ret' = [op |-> "snapshotZSet", r |-> part]
                   /\ UNCHANGED crashed
             [] outcome = "crash" ->
                   /\ ret' = [op |-> "crash",
                              call |-> [op |-> "snapshotZSet"]]
                   /\ crashed' = TRUE
        /\ UNCHANGED <<map_, hmap_, zmap_, expire_index_, now, file,
                       last_offset_, outside>>

\* the fields of all field maps
AllFields == UNION {DOMAIN hmap_[k].fields : k \in DOMAIN hmap_}

\* Rdb::save(store).  opts_.enabled and the success of ::open are the
\* environment's, every ::write succeeds.  snap_str, snap_hash and forder
\* are the iteration orders of map_, of hmap_ and of the fields of each
\* field map.  The file is truncated when it is opened, before the
\* snapshots are taken.  snapshotZSet() flows off its end without a return:
\* Rdb::save receives the vector out (part = all the keys), an
\* indeterminate vector (any part of it), or the process dies.
RdbSave ==
    \E outcome \in {"disabled", "not opened", "dies", "written"} :
        /\ ~crashed
        /\ UNCHANGED <<map_, hmap_, zmap_, expire_index_, now, last_offset_, outside>>
        /\ CASE outcome = "disabled" ->
                   /\ ret' = [op |-> "save", enabled |-> FALSE, r |-> TRUE,
                              whole |-> FALSE]
                   /\ UNCHANGED <<file, crashed>>
             [] outcome = "not opened" ->
                   /\ ret' = [op |-> "save", enabled |-> TRUE, r |-> FALSE,
                              whole |-> FALSE]
                   /\ UNCHANGED <<file, crashed>>
             [] outcome = "dies" ->
                   /\ ret' = [op |-> "crash", call |-> [op |-> "save"]]
                   /\ file' = Some(<<>>)
                   /\ crashed' = TRUE
             [] outcome = "written" ->
                   \E snap_str \in Orders(DOMAIN map_),
                      snap_hash \in Orders(DOMAIN hmap_),
                      forder \in [DOMAIN hmap_ -> Orders(AllFields)],
                      part \in SUBSET DOMAIN zmap_ :
                     \E zorder \in Orders(part) :
                       /\ ret' = [op |-> "save", enabled |-> TRUE,
                                  r |-> TRUE, whole |-> part = DOMAIN zmap_]
                       /\ file' = Some(save(Store, snap_str, snap_hash,
                                            forder,
                                            [i \in 1..Len(zorder) |->
                                                 Flat(Store, zorder[i])]))
                       /\ UNCHANGED crashed

\* A process starts, after the last one has ended or died: its engine is
\* constructed, empty, and Rdb::load(store) fills it from the file.
\* opts_.enabled is the environment's; every randomLevel() of the zadd
\* calls returns lvl.  An exception leaves Rdb::load with the records
\* loaded so far in the store.
RdbLoad ==
    \E enabled \in BOOLEAN, lvl \in 1..MaxSampledLevel :
        /\ \E res \in {IF ~enabled \/ ~has_value(file)
                       THEN [st |-> "true", s |-> EmptyStore]
                       ELSE load(EmptyStore, file[1], lvl, now)} :
               IF res.st = "ub"
               THEN /\ crashed' = TRUE
                    /\ ret' = [op |-> "crash", call |-> [op |-> "load"]]
                    /\ SetStore(EmptyStore)
               ELSE /\ crashed' = FALSE
                    /\ ret' = [op |-> "load", enabled |-> enabled,
                               r |-> res.st]
                    /\ SetStore(res.s)
        /\ UNCHANGED <<now, file, last_offset_, outside>>

\* the record lines of a legacy file, in the order of the keys in order
RECURSIVE recsV1(_, _)
recsV1(m, order) ==
    IF order = <<>> THEN <<>>
    ELSE strRec(Head(order), m[Head(order)]) \o recsV1(m, Tail(order))

\* the bytes of a legacy file as the MRDB1 branch of Rdb::load reads it:
\* the magic line, a line with the count, and one line per scalar record
fileV1(m, order) ==
    MRDB1 \o <<LF>> \o to_string(Len(order)) \o <<LF>> \o recsV1(m, order)

\* A legacy file is put at Rdb::path(): it holds the scalar records m, one
\* for each key of a part of K, with values of V
WriteV1(K, V) ==
    \E S \in SUBSET K :
      \E order \in Orders(S), vals \in [S -> V], exps \in [S -> ExpireAts] :
        \E m \in {[k \in S |-> [value |-> vals[k],
                                 expire_at_ms |-> exps[k]]]} :
            /\ file' = Some(fileV1(m, order))
            /\ ret' = [op |-> "writeV1", map |-> m]
            /\ UNCHANGED <<map_, hmap_, zmap_, expire_index_, now, crashed,
                           last_offset_, outside>>

\* the thread of the replication client is in its loop over the frames
Running ==
    \/ ret.op = "connect"
    \/ ret.op = "frame" /\ ret.end = "loop"

\* ReplicaClient::start(): the thread connects to the primary and sends its
\* first frame
Connect ==
    /\ ~crashed
    /\ ~Running
    /\ ret' = [op |-> "connect", first |-> firstFrame(last_offset_)]
    /\ UNCHANGED <<map_, hmap_, zmap_, expire_index_, now, file, crashed,
                   last_offset_, outside>>

\* ::recv returns 0 or less: the loop and the thread end
Disconnect ==
    /\ ~crashed
    /\ Running
    /\ ret' = [op |-> "disconnect"]
    /\ UNCHANGED <<map_, hmap_, zmap_, expire_index_, now, file, crashed,
                   last_offset_, outside>>

\* the frame is a ZADD for an ordered set that the model does not let grow
AtBound(v) ==
    /\ v.type = "array"
    /\ Len(v.array) >= 2
    /\ Upper(v.array[1]) = ZADD
    /\ SkiplistFull(v.array[2])

\* The parser hands the frame v to the loop of threadMain.  Whether ::fopen
\* succeeds is the environment's; every randomLevel() returns lvl.  An
\* exception that leaves the thread function, and undefined behaviour, end
\* the process.
Receive(F) ==
    \E v \in F, opened \in BOOLEAN, lvl \in 1..MaxSampledLevel :
        /\ ~crashed
        /\ Running
        /\ ~AtBound(v)
        /\ \E h \in {onFrame(Store, last_offset_, file, v, opened, lvl,
                              now)} :
               /\ SetStore(IF h.end = "ub" THEN Store ELSE h.s)
               /\ last_offset_' = h.off
               /\ file' = h.file
               /\ crashed' = (h.end \in {"terminate", "ub"})
               /\ ret' = [op |-> "frame", v |-> v, end |-> h.end]
        /\ UNCHANGED <<now, outside>>

---------------------------------------------------------------------------
(* The write-ahead log (AofLogger) with the reactor that feeds it, its      *)
(* writer task and its rewriter task.  The data members are those of the    *)
(* class; what its member functions and the reactor do with them follows    *)
(* the description of the log, of the dispatch and of the tasks.            *)
(* A log file is the list of the frames written to it, the base a rewrite   *)
(* wrote apart from what was appended after it.                             *)

\* the threads a rewrite can run on
Rewriters == {"rewriter1", "rewriter2"}

\* the reactor, the writer of the log, the rewriters and the replication
\* client
Tasks == {"reactor", "writer", "replica"} \cup Rewriters

\* the fsync policies
Modes == {"always", "every-second", "no-fsync"}

\* the c-th mutating command the client sends: SET k c
Command(c) == <<SET, <<107>>, to_string(c)>>

SetPc(t, label) == pc' = [pc EXCEPT ![t] = label]

SetLocal(t, v) == local' = [local EXCEPT ![t] = v]

\* AofLogger::init: the options are taken over and the writer thread is
\* started; the reactor begins to serve
AofInit(M) ==
    \E mode \in M :
        /\ ~crashed
        /\ ~opts_.enabled
        /\ opts_' = [enabled |-> TRUE, mode |-> mode]
        /\ pc' = [pc EXCEPT !["reactor"] = "idle", !["writer"] = "wait"]
        /\ UNCHANGED <<map_, hmap_, zmap_, expire_index_, now, file, crashed,
                       last_offset_, ret, skiplist, queue_, seq_gen_,
                       last_synced_seq_, rewriting_, incr_cmds_,
                       pause_writer_, writer_is_paused_, aof, tmp, mu_, local,
                       outbound, replVars>>

\* the reactor dispatches the next mutating command of the client to the
\* engine; the engine call takes mu_ and lets it go before it returns
Dispatch ==
    /\ pc["reactor"] = "idle"
    /\ seq_gen_ < MaxCmds
    /\ mu_ = nullopt
    /\ \E cmd \in {Command(seq_gen_ + 1)} :
           /\ SetStore(execute(Store, cmd, now))
           /\ SetLocal("reactor", [cmd |-> cmd, seq |-> 0])
    /\ SetPc("reactor", "append")
    /\ UNCHANGED <<now, file, crashed, last_offset_, ret, skiplist, opts_,
                   queue_, seq_gen_, last_synced_seq_, rewriting_, incr_cmds_,
                   pause_writer_, writer_is_paused_, aof, tmp, mu_, outbound,
                   replVars>>

\* AofLogger::appendRaw, first half: the frame is enqueued with the next
\* sequence number and, while a rewrite runs, buffered in incr_cmds_ too
AppendRaw ==
    /\ pc["reactor"] = "append"
    /\ seq_gen_' = seq_gen_ + 1
    /\ queue_' = Append(queue_, [data |-> local["reactor"].cmd,
                                 seq |-> seq_gen_ + 1])
    /\ incr_cmds_' = IF rewriting_
                     THEN Append(incr_cmds_, local["reactor"].cmd)
                     ELSE incr_cmds_
    /\ SetLocal("reactor", [local["reactor"] EXCEPT !.seq = seq_gen_ + 1])
    /\ SetPc("reactor", IF opts_.mode = "always" THEN "commit" ELSE "respond")
    /\ UNCHANGED <<map_, hmap_, zmap_, expire_index_, now, file, crashed,
                   last_offset_, ret, skiplist, opts_, last_synced_seq_,
                   rewriting_, pause_writer_, writer_is_paused_, aof, tmp,
                   mu_, outbound, replVars>>

\* appendRaw, second half, in always mode: the wait on cv_commit_ ends when
\* the sequence number of the record is durable
WaitCommit_NoWait ==
    /\ pc["reactor"] = "commit"
    /\ SetPc("reactor", "respond")
    /\ UNCHANGED <<map_, hmap_, zmap_, expire_index_, now, file, crashed,
                   last_offset_, ret, skiplist, opts_, queue_, seq_gen_,
                   last_synced_seq_, rewriting_, incr_cmds_, pause_writer_,
                   writer_is_paused_, aof, tmp, mu_, local, outbound,
                   replVars>>

WaitCommit ==
    /\ pc["reactor"] = "commit"
    /\ last_synced_seq_ >= local["reactor"].seq
    /\ SetPc("reactor", "respond")
    /\ UNCHANGED <<map_, hmap_, zmap_, expire_index_, now, file, crashed,
                   last_offset_, ret, skiplist, opts_, queue_, seq_gen_,
                   last_synced_seq_, rewriting_, incr_cmds_, pause_writer_,
                   writer_is_paused_, aof, tmp, mu_, local, outbound,
                   replVars>>

\* the response to the command goes to the outbound buffer
Respond ==
    /\ pc["reactor"] = "respond"
    /\ outbound' = Append(outbound, local["reactor"].seq)
    /\ SetPc("reactor", "idle")
    /\ UNCHANGED <<map_, hmap_, zmap_, expire_index_, now, file, crashed,
                   last_offset_, ret, skiplist, opts_, queue_, seq_gen_,
                   last_synced_seq_, rewriting_, incr_cmds_, pause_writer_,
                   writer_is_paused_, aof, tmp, mu_, local, replVars>>

\* the rewriter threads that run
Rewriting == {t \in Rewriters : pc[t] # "off"}

\* the thread a new rewrite runs on
FreeRewriter == IF pc["rewriter1"] = "off" THEN "rewriter1" ELSE "rewriter2"

\* AofLogger::bgRewrite without the flag that guards its entry
bgRewrite_NoGuard ==
    /\ pc["reactor"] = "idle"
    /\ Rewriting # Rewriters
    /\ rewriting_' = TRUE
    /\ incr_cmds_' = <<>>
    /\ SetPc(FreeRewriter, "snapshot")
    /\ ret' = [op |-> "bgRewrite", r |-> TRUE]
    /\ UNCHANGED <<map_, hmap_, zmap_, expire_index_, now, file, crashed,
                   last_offset_, skiplist, opts_, queue_, seq_gen_,
                   last_synced_seq_, pause_writer_, writer_is_paused_, aof,
                   tmp, mu_, local, outbound, replVars>>

\* AofLogger::bgRewrite, called by the reactor: rewriting_ guards the
\* entry; a rewrite starts with an empty incremental list on a thread of
\* its own
bgRewrite ==
    /\ pc["reactor"] = "idle"
    /\ IF rewriting_
       THEN /\ ret' = [op |-> "bgRewrite", r |-> FALSE]
            /\ UNCHANGED <<rewriting_, incr_cmds_, pc>>
       ELSE /\ rewriting_' = TRUE
            /\ incr_cmds_' = <<>>
            /\ SetPc(FreeRewriter, "snapshot")
            /\ ret' = [op |-> "bgRewrite", r |-> TRUE]
    /\ UNCHANGED <<map_, hmap_, zmap_, expire_index_, now, file, crashed,
                   last_offset_, skiplist, opts_, queue_, seq_gen_,
                   last_synced_seq_, pause_writer_, writer_is_paused_, aof,
                   tmp, mu_, local, outbound, replVars>>

\* AofLogger::writerLoop: the next item is taken from the queue
TakeItem ==
    /\ pc["writer"] = "wait"
    /\ queue_ # <<>>
    /\ queue_' = Tail(queue_)
    /\ SetLocal("writer", Head(queue_))
    /\ SetPc("writer", "write")
    /\ UNCHANGED <<map_, hmap_, zmap_, expire_index_, now, file, crashed,
                   last_offset_, ret, skiplist, opts_, seq_gen_,
                   last_synced_seq_, rewriting_, incr_cmds_, pause_writer_,
                   writer_is_paused_, aof, tmp, mu_, outbound, replVars>>

\* writerLoop: the bytes of the item are written to the log file; whether
\* an fsync follows is the policy's: always, when one is due, or never
WriteItem ==
    /\ pc["writer"] = "write"
    /\ aof' = [aof EXCEPT !.tail = Append(@, local["writer"].data)]
    /\ \E due \in BOOLEAN :
           SetPc("writer",
                 IF \/ opts_.mode = "always"
                    \/ opts_.mode = "every-second" /\ due
                 THEN "fsync" ELSE "wait")
    /\ UNCHANGED <<map_, hmap_, zmap_, expire_index_, now, file, crashed,
                   last_offset_, ret, skiplist, opts_, queue_, seq_gen_,
                   last_synced_seq_, rewriting_, incr_cmds_, pause_writer_,
                   writer_is_paused_, tmp, mu_, local, outbound, replVars>>

\* writerLoop: fsync; the sequence number written last is durable and the
\* waiters on cv_commit_ are notified
Fsync ==
    /\ pc["writer"] = "fsync"
    /\ last_synced_seq_' = local["writer"].seq
    /\ SetPc("writer", "wait")
    /\ UNCHANGED <<map_, hmap_, zmap_, expire_index_, now, file, crashed,
                   last_offset_, ret, skiplist, opts_, queue_, seq_gen_,
                   rewriting_, incr_cmds_, pause_writer_, writer_is_paused_,
                   aof, tmp, mu_, local, outbound, replVars>>

\* writerLoop: asked to pause, the writer signals "paused" on cv_pause_
PauseWriter ==
    /\ pc["writer"] = "wait"
    /\ pause_writer_
    /\ writer_is_paused_' = TRUE
    /\ SetPc("writer", "paused")
    /\ UNCHANGED <<map_, hmap_, zmap_, expire_index_, now, file, crashed,
                   last_offset_, ret, skiplist, opts_, queue_, seq_gen_,
                   last_synced_seq_, rewriting_, incr_cmds_, pause_writer_,
                   aof, tmp, mu_, local, outbound, replVars>>

\* writerLoop: resumed by the rewriter
ResumeWriter ==
    /\ pc["writer"] = "paused"
    /\ ~pause_writer_
    /\ writer_is_paused_' = FALSE
    /\ SetPc("writer", "wait")
    /\ UNCHANGED <<map_, hmap_, zmap_, expire_index_, now, file, crashed,
                   last_offset_, ret, skiplist, opts_, queue_, seq_gen_,
                   last_synced_seq_, rewriting_, incr_cmds_, pause_writer_,
                   aof, tmp, mu_, local, outbound, replVars>>

\* the commands that rebuild the scalars of a snapshot: one SET for each
baseOf(snap) ==
    LET order == CHOOSE o \in Orders(DOMAIN snap) : TRUE
    IN  [i \in 1..Len(order) |-> <<SET, order[i], snap[order[i]].value>>]

\* AofLogger::rewriterLoop: the snapshot of the engine is taken under mu_
TakeSnapshot(t) ==
    /\ pc[t] = "snapshot"
    /\ mu_ = nullopt
    /\ SetLocal(t, map_)
    /\ SetPc(t, "base")
    /\ UNCHANGED <<map_, hmap_, zmap_, expire_index_, now, file, crashed,
                   last_offset_, ret, skiplist, opts_, queue_, seq_gen_,
                   last_synced_seq_, rewriting_, incr_cmds_, pause_writer_,
                   writer_is_paused_, aof, tmp, mu_, outbound, replVars>>

\* rewriterLoop: the base is written into the new file
WriteBase(t) ==
    /\ pc[t] = "base"
    /\ tmp' = Some([base |-> baseOf(local[t]), tail |-> <<>>])
    /\ SetPc(t, "flush")
    /\ UNCHANGED <<map_, hmap_, zmap_, expire_index_, now, file, crashed,
                   last_offset_, ret, skiplist, opts_, queue_, seq_gen_,
                   last_synced_seq_, rewriting_, incr_cmds_, pause_writer_,
                   writer_is_paused_, aof, mu_, local, outbound, replVars>>

\* rewriterLoop: the incremental list is flushed into the new file, when
\* the base is complete (then the writer is asked to pause) and again when
\* the writer has paused (then comes the rename)
FlushIncr(t) ==
    /\ \/ pc[t] = "flush" /\ SetPc(t, "pause")
       \/ pc[t] = "paused" /\ writer_is_paused_ /\ SetPc(t, "rename")
    /\ has_value(tmp)
    /\ tmp' = Some([tmp[1] EXCEPT !.tail = @ \o incr_cmds_])
    /\ incr_cmds_' = <<>>
    /\ UNCHANGED <<map_, hmap_, zmap_, expire_index_, now, file, crashed,
                   last_offset_, ret, skiplist, opts_, queue_, seq_gen_,
                   last_synced_seq_, rewriting_, pause_writer_,
                   writer_is_paused_, aof, mu_, local, outbound, replVars>>

\* rewriterLoop: the writer is asked to pause
RequestPause(t) ==
    /\ pc[t] = "pause"
    /\ pause_writer_' = TRUE
    /\ SetPc(t, "paused")
    /\ UNCHANGED <<map_, hmap_, zmap_, expire_index_, now, file, crashed,
                   last_offset_, ret, skiplist, opts_, queue_, seq_gen_,
                   last_synced_seq_, rewriting_, incr_cmds_,
                   writer_is_paused_, aof, tmp, mu_, local, outbound,
                   replVars>>

\* rewriterLoop: the new file is renamed over the old one, the rewrite is
\* over and the writer is resumed
Rename(t) ==
    /\ pc[t] = "rename"
    /\ has_value(tmp)
    /\ aof' = tmp[1]
    /\ tmp' = nullopt
    /\ rewriting_' = FALSE
    /\ pause_writer_' = FALSE
    /\ SetPc(t, "off")
    /\ SetLocal(t, <<>>)
    /\ ret' = [op |-> "rename"]
    /\ UNCHANGED <<map_, hmap_, zmap_, expire_index_, now, file, crashed,
                   last_offset_, skiplist, opts_, queue_, seq_gen_,
                   last_synced_seq_, incr_cmds_, writer_is_paused_, mu_,
                   outbound, replVars>>

\* AofLogger::load on a fresh engine: every frame of the file is dispatched
\* as if a client had sent it
RECURSIVE replay(_, _)
replay(s, frames) ==
    IF frames = <<>> THEN s
    ELSE replay(execute(s, Head(frames), 0), Tail(frames))

---------------------------------------------------------------------------
(* The engine called from two threads: the reactor and the replication     *)
(* client.  A method that begins with lock_guard lk(mu_) is entered when   *)
(* mu_ is free and holds it until it returns; size() has no lock_guard.    *)

\* the threads that call the engine
Callers == {"reactor", "replica"}

\* Server::run and ReplicaClient::start: both threads are running
StartCallers ==
    /\ ~crashed
    /\ \A t \in Callers : pc[t] = "off"
    /\ ~opts_.enabled
    /\ pc' = [t \in Tasks |-> IF t \in Callers THEN "idle" ELSE pc[t]]
    /\ UNCHANGED <<map_, hmap_, zmap_, expire_index_, now, file, crashed,
                   last_offset_, ret, skiplist, opts_, queue_, seq_gen_,
                   last_synced_seq_, rewriting_, incr_cmds_, pause_writer_,
                   writer_is_paused_, aof, tmp, mu_, local, outbound,
                   replVars>>

\* the calls of the threads: set, del and get
EngineCalls(K, V) ==
    {[op |-> "set", key |-> k, value |-> v] : k \in K, v \in V}
        \cup {[op |-> o, key |-> k] : o \in {"del", "get"}, k \in K}

\* what a call does to the engine and what it returns
bodyOf(s, call, now_ms) ==
    IF call.op = "set" THEN set(s, call.key, call.value, nullopt, now_ms)
    ELSE IF call.op = "del" THEN del(s, <<call.key>>, now_ms)
    ELSE get(s, call.key, now_ms)

\* std::lock_guard<std::mutex> lk(mu_) at the head of a method: the thread
\* is in the method, holding mu_
Enter(t, C) ==
    \E call \in C :
        /\ pc[t] = "idle"
        /\ mu_ = nullopt
        /\ mu_' = Some(t)
        /\ SetPc(t, "in")
        /\ SetLocal(t, call)
        /\ UNCHANGED <<map_, hmap_, zmap_, expire_index_, now, file, crashed,
                       last_offset_, ret, skiplist, opts_, queue_, seq_gen_,
                       last_synced_seq_, rewriting_, incr_cmds_,
                       pause_writer_, writer_is_paused_, aof, tmp, outbound,
                       replVars>>

\* the body of the method and its return, which releases mu_
Leave(t) ==
    /\ pc[t] = "in"
    /\ local[t].op # "size"
    /\ \E res \in {bodyOf(Store, local[t], now)} :
           /\ SetStore(res.s)
           /\ ret' = [op |-> local[t].op, task |-> t, r |-> res.r]
    /\ mu_' = nullopt
    /\ SetPc(t, "idle")
    /\ SetLocal(t, <<>>)
    /\ UNCHANGED <<now, file, crashed, last_offset_, skiplist, opts_, queue_,
                   seq_gen_, last_synced_seq_, rewriting_, incr_cmds_,
                   pause_writer_, writer_is_paused_, aof, tmp, outbound,
                   replVars>>

\* size() is entered: return map_.size() follows, with no lock_guard
EnterSize(t) ==
    /\ pc[t] = "idle"
    /\ SetPc(t, "in")
    /\ SetLocal(t, [op |-> "size"])
    /\ UNCHANGED <<map_, hmap_, zmap_, expire_index_, now, file, crashed,
                   last_offset_, ret, skiplist, opts_, queue_, seq_gen_,
                   last_synced_seq_, rewriting_, incr_cmds_, pause_writer_,
                   writer_is_paused_, aof, tmp, mu_, outbound, replVars>>

\* the sizes map_.size() can return: that of map_ or, read while another
\* thread is in a method that writes map_ (a data race), that of the map
\* this method leaves
sizes(t) ==
    {Cardinality(DOMAIN map_)} \cup
        {Cardinality(DOMAIN bodyOf(Store, local[u], now).s.map_) :
             u \in {v \in Callers \ {t} :
                        pc[v] = "in" /\ local[v].op # "size"}}

\* size() returns
LeaveSize(t) ==
    /\ pc[t] = "in"
    /\ local[t].op = "size"
    /\ \E r \in sizes(t) : ret' = [op |-> "size", task |-> t, r |-> r]
    /\ SetPc(t, "idle")
    /\ SetLocal(t, <<>>)
    /\ UNCHANGED <<map_, hmap_, zmap_, expire_index_, now, file, crashed,
                   last_offset_, skiplist, opts_, queue_, seq_gen_,
                   last_synced_seq_, rewriting_, incr_cmds_, pause_writer_,
                   writer_is_paused_, aof, tmp, mu_, outbound, replVars>>

---------------------------------------------------------------------------
(* The command line: parse_args and main.  args are argv[1..argc-1]; the   *)
(* position i of the code is args[i].                                      *)

\* "--port", "--bind", "--config", "-h", "--help"
OptPort == <<45, 45, 112, 111, 114, 116>>
OptBind == <<45, 45, 98, 105, 110, 100>>
OptConfig == <<45, 45, 99, 111, 110, 102, 105, 103>>
OptH == <<45, 104>>
OptHelp == <<45, 45, 104, 101, 108, 112>>

\* parse_args from position i on.  loaded is what loadConfigFromFile
\* returns.  [r, out, throw]: the value returned, what was printed (the
\* usage on cout, the messages on cerr), and whether std::stoi threw
RECURSIVE parse_args(_, _, _)
parse_args(args, i, loaded) ==
    IF i > Len(args) THEN [r |-> TRUE, out |-> <<>>, throw |-> FALSE]
    ELSE LET arg == args[i]
         IN  IF arg = OptPort /\ i < Len(args)
             THEN IF stoi(args[i + 1]).throw
                  THEN [r |-> FALSE, out |-> <<>>, throw |-> TRUE]
                  ELSE parse_args(args, i + 2, loaded)
             ELSE IF arg = OptBind /\ i < Len(args)
             THEN parse_args(args, i + 2, loaded)
             ELSE IF arg = OptConfig /\ i < Len(args)
             THEN IF ~loaded
                  THEN [r |-> FALSE, out |-> <<[cerr |-> "err"]>>,
                        throw |-> FALSE]
                  ELSE parse_args(args, i + 2, loaded)
             ELSE IF arg = OptH \/ arg = OptHelp
             THEN [r |-> FALSE, out |-> <<[cout |-> "usage"]>>,
                   throw |-> FALSE]
             ELSE [r |-> FALSE,
                   out |-> <<[cerr |-> "Unknown argument", arg |-> arg],
                             [cout |-> "usage"]>>,
                   throw |-> FALSE]

\* main: the exit status of the process.  run is what Server::run returns;
\* an exception that leaves main ends the process by std::terminate, which
\* aborts it: no exit status is returned (written -1 here)
main(args, loaded, run) ==
    LET p == parse_args(args, 1, loaded)
    IN  IF p.throw THEN [status |-> -1, out |-> p.out]
        ELSE IF ~p.r THEN [status |-> 1, out |-> p.out]
        ELSE [status |-> run, out |-> p.out]

\* the process is started with the arguments args
RunMain(A) ==
    \E args \in A, loaded \in BOOLEAN, run \in {0, 1} :
        /\ ret.op = "init"
        /\ \E res \in {main(args, loaded, run)} :
               ret' = [op |-> "main", args |-> args, status |-> res.status,
                       out |-> res.out]
        /\ UNCHANGED <<map_, hmap_, zmap_, expire_index_, now, file, crashed,
                       last_offset_, outside>>

---------------------------------------------------------------------------
(* Rdb::save step by step on the reactor, beside the replication client   *)
(* thread.  local["reactor"] holds the three vectors of the save and, for *)
(* the claims, the states the engine has been in since the save began.    *)

\* the frames the replication client thread applies meanwhile: SET k v,
\* DEL k, HSET k f v, HDEL k f, ZADD k 0 a
SaveCommands ==
    {<<SET, <<107>>, <<118>>>>, <<DEL, <<107>>>>,
     <<HSET, <<107>>, <<102>>, <<118>>>>, <<HDEL, <<107>>, <<102>>>>,
     <<ZADD, <<107>>, <<48>>, <<97>>>>}

\* Rdb::save is entered with the snapshot enabled: the file is opened with
\* O_TRUNC, or the open fails and save returns false
SaveOpen ==
    \E opened \in BOOLEAN :
        /\ ~crashed
        /\ pc["reactor"] = "off"
        /\ IF opened
           THEN /\ file' = Some(<<>>)
                /\ SetPc("reactor", "snapshot")
                /\ SetLocal("reactor", [seen |-> {Store}])
                /\ ret' = [op |-> "open"]
           ELSE /\ ret' = [op |-> "save", enabled |-> TRUE, r |-> FALSE]
                /\ UNCHANGED <<file, pc, local>>
        /\ UNCHANGED <<map_, hmap_, zmap_, expire_index_, now, crashed,
                       last_offset_, skiplist, opts_, queue_, seq_gen_,
                       last_synced_seq_, rewriting_, incr_cmds_,
                       pause_writer_, writer_is_paused_, aof, tmp, mu_,
                       outbound, replVars>>

\* the reactor goes from one position of Rdb::save to the next with the
\* vector v taken under the name f
SaveStep(from, to, f, v) ==
    /\ ~crashed
    /\ pc["reactor"] = from
    /\ SetPc("reactor", to)
    /\ SetLocal("reactor", local["reactor"] @@ (f :> v))
    /\ ret' = [op |-> from]
    /\ UNCHANGED <<map_, hmap_, zmap_, expire_index_, now, file, crashed,
                   last_offset_, skiplist, opts_, queue_, seq_gen_,
                   last_synced_seq_, rewriting_, incr_cmds_, pause_writer_,
                   writer_is_paused_, aof, tmp, mu_, outbound, replVars>>

\* auto snap_str = store.snapshot(): map_ is copied under mu_
SaveSnapshot == SaveStep("snapshot", "snapshotHash", "snap_str", map_)

\* auto snap_hash = store.snapshotHash(): hmap_ is copied under mu_
SaveSnapshotHash ==
    SaveStep("snapshotHash", "snapshotZSet", "snap_hash", hmap_)

\* auto snap_zset = store.snapshotZSet(): the function flows off its end,
\* so that save receives the vector out, an indeterminate one (a part of
\* it), or the process dies
SaveSnapshotZSet ==
    \/ \E part \in SUBSET DOMAIN zmap_ :
           SaveStep("snapshotZSet", "write", "snap_zset",
                    [key \in part |-> Flat(Store, key)])
    \/ /\ ~crashed
       /\ pc["reactor"] = "snapshotZSet"
       /\ crashed' = TRUE
       /\ ret' = [op |-> "crash", call |-> [op |-> "save"]]
       /\ UNCHANGED <<map_, hmap_, zmap_, expire_index_, now, file,
                      last_offset_, outside>>

\* the header and the three sections are written from the vectors
SaveWrite ==
    /\ ~crashed
    /\ pc["reactor"] = "write"
    /\ \E l \in {local["reactor"]} :
         \E snap_str \in Orders(DOMAIN l.snap_str),
            snap_hash \in Orders(DOMAIN l.snap_hash),
            forder \in [DOMAIN l.snap_hash -> Orders(AllFields)],
            zorder \in Orders(DOMAIN l.snap_zset) :
             /\ file' = Some(save([map_ |-> l.snap_str,
                                   hmap_ |-> l.snap_hash],
                                  snap_str, snap_hash, forder,
                                  [i \in 1..Len(zorder) |->
                                       l.snap_zset[zorder[i]]]))
             /\ ret' = [op |-> "save", enabled |-> TRUE, r |-> TRUE,
                        seen |-> l.seen, snap_str |-> l.snap_str,
                        snap_hash |-> l.snap_hash, snap_zset |-> l.snap_zset]
    /\ SetPc("reactor", "off")
    /\ SetLocal("reactor", <<>>)
    /\ UNCHANGED <<map_, hmap_, zmap_, expire_index_, now, crashed,
                   last_offset_, skiplist, opts_, queue_, seq_gen_,
                   last_synced_seq_, rewriting_, incr_cmds_, pause_writer_,
                   writer_is_paused_, aof, tmp, mu_, outbound, replVars>>

\* the replication client thread applies a streamed frame to the engine
\* (each engine call takes mu_ and lets it go before it returns)
ReplicaApply(C) ==
    \E cmd \in C :
        /\ ~crashed
        /\ \E s \in {execute(Store, cmd, now)} :
               /\ SetStore(s)
               /\ IF pc["reactor"] = "off" THEN UNCHANGED local
                  ELSE SetLocal("reactor",
                                [local["reactor"] EXCEPT
                                     !.seen = @ \cup {s}])
        /\ ret' = [op |-> "apply", cmd |-> cmd]
        /\ UNCHANGED <<now, file, crashed, last_offset_, skiplist, opts_,
                       queue_, seq_gen_, last_synced_seq_, rewriting_,
                       incr_cmds_, pause_writer_, writer_is_paused_, aof, tmp,
                       mu_, pc, outbound, replVars>>

---------------------------------------------------------------------------
(* ReplicaClient::start, threadMain and stop as two tasks: the thread th_  *)
(* ("replica") and the caller of start and stop ("reactor").  The primary  *)
(* puts frames on the connection or closes it as it likes.                 *)

\* start() with the replica enabled: running_ is set and th_ is started;
\* the thread connects (or fails to, and returns) and sends its first frame
ReplStart ==
    \E connected \in BOOLEAN :
        /\ ~crashed
        /\ pc["reactor"] = "off" /\ pc["replica"] = "off"
        /\ running_' = TRUE
        /\ sock' = [open |-> connected, queue |-> <<>>]
        /\ pc' = [pc EXCEPT !["reactor"] = "started",
                            !["replica"] = IF connected THEN "while"
                                           ELSE "done"]
        /\ ret' = [op |-> "start", first |-> firstFrame(last_offset_)]
        /\ UNCHANGED <<map_, hmap_, zmap_, expire_index_, now, file, crashed,
                       last_offset_, skiplist, opts_, queue_, seq_gen_,
                       last_synced_seq_, rewriting_, incr_cmds_,
                       pause_writer_, writer_is_paused_, aof, tmp, mu_, local,
                       outbound>>

\* the primary sends a frame, while fewer than MaxInbox wait to be read
PrimarySends(F) ==
    \E v \in F :
        /\ ~crashed
        /\ sock.open
        /\ Len(sock.queue) < MaxInbox
        /\ sock' = [sock EXCEPT !.queue = Append(@, v)]
        /\ ret' = [op |-> "sent"]
        /\ UNCHANGED <<map_, hmap_, zmap_, expire_index_, now, file, crashed,
                       last_offset_, skiplist, aofVars, running_>>

\* the primary closes the connection
PrimaryCloses ==
    /\ ~crashed
    /\ sock.open
    /\ sock' = [sock EXCEPT !.open = FALSE]
    /\ ret' = [op |-> "closed"]
    /\ UNCHANGED <<map_, hmap_, zmap_, expire_index_, now, file, crashed,
                   last_offset_, skiplist, aofVars, running_>>

\* while (running_): the thread reads the flag; when it is false the loop
\* ends, the socket is closed and the thread function returns
WhileRunning ==
    /\ ~crashed
    /\ pc["replica"] = "while"
    /\ SetPc("replica", IF running_ THEN "recv" ELSE "done")
    /\ ret' = [op |-> "while", running |-> running_]
    /\ UNCHANGED <<map_, hmap_, zmap_, expire_index_, now, file, crashed,
                   last_offset_, skiplist, opts_, queue_, seq_gen_,
                   last_synced_seq_, rewriting_, incr_cmds_, pause_writer_,
                   writer_is_paused_, aof, tmp, mu_, local, outbound,
                   replVars>>

\* ::recv(fd, ...) on the blocking socket returns: with the bytes of a
\* frame, which the loop body handles, or with 0 when the primary has
\* closed the connection.  While the connection is open and nothing has
\* arrived the thread stays in the call.
Recv ==
    /\ ~crashed
    /\ pc["replica"] = "recv"
    /\ IF sock.queue # <<>>
       THEN \E opened \in BOOLEAN, lvl \in 1..MaxSampledLevel :
              \E h \in {onFrame(Store, last_offset_, file, Head(sock.queue),
                                  opened, lvl, now)} :
                 /\ SetStore(IF h.end = "ub" THEN Store ELSE h.s)
                 /\ last_offset_' = h.off
                 /\ file' = h.file
                 /\ crashed' = (h.end \in {"terminate", "ub"})
                 /\ sock' = [sock EXCEPT !.queue = Tail(@)]
                 /\ SetPc("replica", IF h.end = "loop" THEN "while"
                                     ELSE "done")
                 /\ ret' = [op |-> "frame", v |-> Head(sock.queue),
                            end |-> h.end]
       ELSE /\ ~sock.open
            /\ SetPc("replica", "done")
            /\ ret' = [op |-> "disconnect"]
            /\ UNCHANGED <<map_, hmap_, zmap_, expire_index_, file, crashed,
                           last_offset_, sock>>
    /\ UNCHANGED <<now, skiplist, opts_, queue_, seq_gen_, last_synced_seq_,
                   rewriting_, incr_cmds_, pause_writer_, writer_is_paused_,
                   aof, tmp, mu_, local, outbound, running_>>

\* stop(): th_ is joinable, so running_ is cleared and th_.join() is called
ReplStop ==
    /\ ~crashed
    /\ pc["reactor"] = "started"
    /\ running_' = FALSE
    /\ SetPc("reactor", "join")
    /\ ret' = [op |-> "stop"]
    /\ UNCHANGED <<map_, hmap_, zmap_, expire_index_, now, file, crashed,
                   last_offset_, skiplist, opts_, queue_, seq_gen_,
                   last_synced_seq_, rewriting_, incr_cmds_, pause_writer_,
                   writer_is_paused_, aof, tmp, mu_, local, outbound, sock>>

\* th_.join() returns when the thread function has returned; stop() returns
ReplJoin ==
    /\ ~crashed
    /\ pc["reactor"] = "join"
    /\ pc["replica"] = "done"
    /\ SetPc("reactor", "stopped")
    /\ ret' = [op |-> "stopped"]
    /\ UNCHANGED <<map_, hmap_, zmap_, expire_index_, now, file, crashed,
                   last_offset_, skiplist, opts_, queue_, seq_gen_,
                   last_synced_seq_, rewriting_, incr_cmds_, pause_writer_,
                   writer_is_paused_, aof, tmp, mu_, local, outbound,
                   replVars>>

---------------------------------------------------------------------------
(* A snapshot file that was not written to its end *)

\* Rdb::save issues one ::write after the other: a process that is ended
\* between two of them, or a write that stores a part of its bytes, leaves
\* the first n bytes of the file
CutShort ==
    /\ has_value(file)
    /\ ret.op = "save"
    /\ \E n \in 0..(Len(file[1]) - 1) :
           /\ file' = Some(SubSeq(file[1], 1, n))
           /\ ret' = [op |-> "cut", n |-> n]
    /\ UNCHANGED <<map_, hmap_, zmap_, expire_index_, now, crashed,
                   last_offset_, outside>>

---------------------------------------------------------------------------
(* Rdb::save when a ::write fails *)

\* the lengths of the file after which a ::write of Rdb::save can fail:
\* before the header, and after each line written before the last one
WriteEnds(bytes) ==
    {0} \cup {n \in 1..(Len(bytes) - 1) : bytes[n] = LF}

\* Rdb::save with the snapshot enabled and the file opened (O_TRUNC); one
\* of its ::write calls returns less than 0: the file is closed with what
\* was written before, err is set and save returns false
RdbSaveWriteFails ==
    /\ ~crashed
    /\ \E snap_str \in Orders(DOMAIN map_),
          snap_hash \in Orders(DOMAIN hmap_),
          forder \in [DOMAIN hmap_ -> Orders(AllFields)],
          zorder \in Orders(DOMAIN zmap_) :
         \E bytes \in {save(Store, snap_str, snap_hash, forder,
                             [i \in 1..Len(zorder) |->
                                  Flat(Store, zorder[i])])} :
           \E n \in WriteEnds(bytes) :
               /\ file' = Some(SubSeq(bytes, 1, n))
               /\ ret' = [op |-> "save", enabled |-> TRUE, r |-> FALSE,
                          whole |-> FALSE, err |-> "write"]
    /\ UNCHANGED <<map_, hmap_, zmap_, expire_index_, now, crashed,
                   last_offset_, outside>>

---------------------------------------------------------------------------
(* A Skiplist of its own, called directly *)

\* Skiplist::insert on the list; lvl is what randomLevel() returns
SlInsert(S, M, L) ==
    \E score \in S, member \in M, lvl \in L :
        /\ ~crashed
        /\ skiplist.length_ < MaxNodes
        /\ \E res \in {insert(skiplist, score, member, lvl)} :
             \E call \in {[op |-> "insert", score |-> score,
                            member |-> member, lvl |-> lvl, r |-> res.r]} :
               /\ skiplist' = res.sl
               /\ crashed' = res.ub
               /\ ret' = IF res.ub THEN [op |-> "crash", call |-> call]
                         ELSE call
        /\ UNCHANGED <<map_, hmap_, zmap_, expire_index_, now, file,
                       last_offset_, aofVars, replVars>>

\* Skiplist::erase on the list
SlErase(S, M) ==
    \E score \in S, member \in M :
        /\ ~crashed
        /\ \E res \in {erase(skiplist, score, member)} :
             \E call \in {[op |-> "erase", score |-> score,
                            member |-> member, r |-> res.r]} :
               /\ skiplist' = res.sl
               /\ crashed' = res.ub
               /\ ret' = IF res.ub THEN [op |-> "crash", call |-> call]
                         ELSE call
        /\ UNCHANGED <<map_, hmap_, zmap_, expire_index_, now, file,
                       last_offset_, aofVars, replVars>>

---------------------------------------------------------------------------
(* The engine under every operation on one key name *)

\* "k": the three families and the expiry index meet on one name
OneKey == {<<107>>}

\* one member at one score: the ordered set stays a vector here
OneMember == {<<97>>}

Init ==
    /\ map_ = EmptyMap
    /\ hmap_ = EmptyMap
    /\ zmap_ = EmptyMap
    /\ expire_index_ = EmptyMap
    /\ now = 0
    /\ file = nullopt
    /\ crashed = FALSE
    /\ last_offset_ = 0
    /\ ret = [op |-> "init"]
    /\ skiplist = NewSkiplist
    /\ opts_ = [enabled |-> FALSE, mode |-> "no-fsync"]
    /\ queue_ = <<>>
    /\ seq_gen_ = 0
    /\ last_synced_seq_ = 0
    /\ rewriting_ = FALSE
    /\ incr_cmds_ = <<>>
    /\ pause_writer_ = FALSE
    /\ writer_is_paused_ = FALSE
    /\ aof = [base |-> <<>>, tail |-> <<>>]
    /\ tmp = nullopt
    /\ mu_ = nullopt
    /\ pc = [t \in Tasks |-> "off"]
    /\ local = [t \in Tasks |-> <<>>]
    /\ outbound = <<>>
    /\ running_ = FALSE
    /\ sock = [open |-> FALSE, queue |-> <<>>]

Next ==
    \/ Tick
    \/ Set(OneKey, Values)
    \/ SetWithExpireAtMs(OneKey, Values)
    \/ Get(OneKey)
    \/ Del(OneKey)
    \/ Exists(OneKey)
    \/ Expire(OneKey)
    \/ Ttl(OneKey)
    \/ HSet(OneKey, Fields, Values)
    \/ HGet(OneKey, Fields)
    \/ HDel(OneKey, Fields)
    \/ HExists(OneKey, Fields)
    \/ HGetAll(OneKey)
    \/ HLen(OneKey)
    \/ SetHashExpireAtMs(OneKey)
    \/ ZAdd(OneKey, {0} \X OneMember)
    \/ ZRem(OneKey, OneMember)
    \/ ZRange(OneKey, {0, -1})
    \/ ZScore(OneKey, OneMember)
    \/ SetZSetExpireAtMs(OneKey)
    \/ ExpireScanStep({1, 2})
    \/ ListKeys

Spec == Init /\ [][Next]_vars

---------------------------------------------------------------------------
(* One ordered set under zadd, zrem and the reads, in both storage modes *)

NextZSet ==
    \/ ZAdd(OneKey, Scores \X Members)
    \/ ZRem(OneKey, Members)
    \/ ZRange(OneKey, {0, -1})
    \/ ZScore(OneKey, Members)
    \/ SnapshotZSet

SpecZSet == Init /\ [][NextZSet]_vars

---------------------------------------------------------------------------
(* The engine, saved to a snapshot file once, and the engines of the      *)
(* processes that start from that file.                                   *)

\* " " and "\n"
RdbValues == {<<32>>, <<10>>}

\* " "
RdbHashKeys == {<<32>>}

\* "f"
OneField == {<<102>>}

\* the calls of zadd, as pairs of a score and a member: "a" at 0 and at
\* 0.0000008, "b" at 0, "\n" at 0.0000016
RdbPairs == {<<0, <<97>>>>, <<8, <<97>>>>, <<0, <<98>>>>, <<16, <<10>>>>}

NextRdb ==
    \/ /\ file = nullopt
       /\ \/ SetWithExpireAtMs(OneKey, RdbValues)
          \/ HSet(RdbHashKeys, OneField, Values)
          \/ SetHashExpireAtMs(RdbHashKeys)
          \/ ZAdd(OneKey, RdbPairs)
          \/ SetZSetExpireAtMs(OneKey)
    \/ file = nullopt /\ RdbSave
    \/ RdbLoad

SpecRdb == Init /\ [][NextRdb]_vars

---------------------------------------------------------------------------
(* A legacy snapshot file, and the engines of the processes that start    *)
(* from it.                                                               *)

\* "v", " " and "\n"
V1Values == {<<118>>, <<32>>, <<10>>}

NextV1 ==
    \/ file = nullopt /\ WriteV1(Keys, V1Values)
    \/ Tick
    \/ RdbLoad

SpecV1 == Init /\ [][NextV1]_vars

---------------------------------------------------------------------------
(* The engine of a replica under the frames that its replication client   *)
(* receives from the primary.                                             *)

\* the frames of the three types
Bulk(payload) == [type |-> "bulk", bulk |-> payload, array |-> <<>>]
Array(a) == [type |-> "array", bulk |-> <<>>, array |-> a]
Simple(text) == [type |-> "simple", bulk |-> text, array |-> <<>>]

\* the snapshot file of an engine that holds nothing but the scalar key
SnapshotOfOne(key, value) ==
    save(setWithExpireAtMs(EmptyStore, key, value, -1).s, <<key>>, <<>>,
         EmptyMap, <<>>)

\* the payloads of the bootstrap: the snapshot of an empty engine, of an
\* engine that holds "j", and of one that holds "k"
Payloads ==
    {save(EmptyStore, <<>>, <<>>, EmptyMap, <<>>),
     SnapshotOfOne(<<106>>, <<118>>), SnapshotOfOne(<<107>>, <<119>>)}

\* the commands of the stream, on the key "k": SET (also in lower case, and
\* with PX and EX), DEL, EXPIRE, HSET, HDEL, ZADD, ZREM
Commands ==
    {<<SET, <<107>>, <<118>>>>,
     <<<<115, 101, 116>>, <<107>>, <<119>>>>,
     <<SET, <<107>>, <<118>>, <<80, 88>>, <<49>>>>,
     <<SET, <<107>>, <<118>>, <<69, 88>>, <<49>>>>,
     <<DEL, <<107>>>>,
     <<EXPIRE, <<107>>, <<49>>>>,
     <<EXPIRE, <<107>>, <<45, 49>>>>,
     <<HSET, <<107>>, <<102>>, <<118>>>>,
     <<HDEL, <<107>>, <<102>>>>,
     <<ZADD, <<107>>, <<48>>, <<97>>>>,
     <<ZADD, <<107>>, <<49>>, <<97>>>>,
     <<ZADD, <<107>>, <<48>>, <<98>>>>,
     <<ZADD, <<107>>, <<48>>, <<99>>>>,
     <<ZREM, <<107>>, <<97>>>>}

\* "+OFFSET 5", "+OFFSET 12" and "+OK"
SimpleTexts == {OFFSET \o <<53>>, OFFSET \o <<49, 50>>, <<79, 75>>}

Frames ==
    {Bulk(p) : p \in Payloads} \cup {Array(a) : a \in Commands} \cup
    {Simple(x) : x \in SimpleTexts} \cup
    {Array(<<>>), [type |-> "integer", bulk |-> <<>>, array |-> <<>>]}

NextRepl ==
    \/ Connect
    \/ Receive(Frames)
    \/ Disconnect

SpecRepl == Init /\ [][NextRepl]_vars

---------------------------------------------------------------------------
(* One ordered set read by rank: indices on both sides of 0, inside and     *)
(* outside the set                                                          *)

\* below -n, -2, -1, 0, 1 and above n - 1 for every size n the set reaches
RangeIndices == {-5, -2, -1, 0, 1, 5}

\* 0 and 0.0000016: further apart than kDelta
RangeScores == {0, 16}

NextRange ==
    \/ ZAdd(OneKey, RangeScores \X Members)
    \/ ZRem(OneKey, Members)
    \/ ZRange(OneKey, RangeIndices)

SpecRange == Init /\ [][NextRange]_vars

---------------------------------------------------------------------------
(* The log under a client that sends SET commands and asks for rewrites *)

NextAof ==
    \/ AofInit(Modes)
    \/ Dispatch
    \/ AppendRaw
    \/ WaitCommit
    \/ Respond
    \/ bgRewrite
    \/ TakeItem
    \/ WriteItem
    \/ Fsync
    \/ PauseWriter
    \/ ResumeWriter
    \/ \E t \in Rewriters :
           \/ TakeSnapshot(t)
           \/ WriteBase(t)
           \/ FlushIncr(t)
           \/ RequestPause(t)
           \/ Rename(t)

SpecAof == Init /\ [][NextAof]_vars

---------------------------------------------------------------------------
(* The engine under calls from the reactor and the replication client *)

NextCallers ==
    \/ StartCallers
    \/ \E t \in Callers :
           \/ Enter(t, EngineCalls(Keys, Values))
           \/ Leave(t)
           \/ EnterSize(t)
           \/ LeaveSize(t)

SpecCallers == Init /\ [][NextCallers]_vars

---------------------------------------------------------------------------
(* The process started with up to MaxArgc arguments *)

\* the options, a number, and a word that is neither: "80" and "x"
ArgWords == {OptPort, OptBind, OptConfig, OptH, OptHelp, <<56, 48>>, <<120>>}

NextMain == RunMain(SeqsUpTo(ArgWords, MaxArgc))

SpecMain == Init /\ [][NextMain]_vars

---------------------------------------------------------------------------
(* The periodic expiry over two keys, with records of the three families *)

\* the max_steps argument of expireScanStep
ScanSteps == {0, 1, 2, 3}

NextScan ==
    \/ Tick
    \/ Set(Keys, Values)
    \/ HSet(Keys, OneField, Values)
    \/ SetHashExpireAtMs(Keys)
    \/ ZAdd(OneKey, {0} \X OneMember)
    \/ SetZSetExpireAtMs(OneKey)
    \/ ExpireScanStep(ScanSteps)

SpecScan == Init /\ [][NextScan]_vars

---------------------------------------------------------------------------
(* Rdb::save beside the replication client thread *)

NextSave ==
    \/ SaveOpen
    \/ SaveSnapshot
    \/ SaveSnapshotHash
    \/ SaveSnapshotZSet
    \/ SaveWrite
    \/ ReplicaApply(SaveCommands)

SpecSave == Init /\ [][NextSave]_vars

---------------------------------------------------------------------------
(* The replication client started and stopped, under a primary that sends *)
(* what it likes.  The two threads are scheduled fairly; nothing is       *)
(* assumed of the primary.                                                *)

\* SET k v, SET j v, DEL k
StopFrames ==
    {Array(<<SET, <<107>>, <<118>>>>), Array(<<SET, <<106>>, <<118>>>>),
     Array(<<DEL, <<107>>>>)}

NextStop ==
    \/ ReplStart
    \/ PrimarySends(StopFrames)
    \/ PrimaryCloses
    \/ WhileRunning
    \/ Recv
    \/ ReplStop
    \/ ReplJoin

SpecStop ==
    /\ Init
    /\ [][NextStop]_vars
    /\ WF_vars(WhileRunning)
    /\ WF_vars(Recv)
    /\ WF_vars(ReplJoin)

---------------------------------------------------------------------------
(* A snapshot file cut short and loaded by the next process *)

NextCut ==
    \/ /\ file = nullopt
       /\ \/ SetWithExpireAtMs(OneKey, Values)
          \/ HSet(OneKey, OneField, Values)
          \/ ZAdd(OneKey, {0} \X OneMember)
    \/ file = nullopt /\ RdbSave
    \/ CutShort
    \/ RdbLoad

SpecCut == Init /\ [][NextCut]_vars

---------------------------------------------------------------------------
(* Saves that succeed and saves that fail, with writes to the engine      *)
(* between them                                                           *)

NextResave ==
    \/ SetWithExpireAtMs(OneKey, Values)
    \/ HSet(OneKey, Fields, Values)
    \/ HDel(OneKey, Fields)
    \/ Del(OneKey)
    \/ RdbSave
    \/ RdbSaveWriteFails
    \/ RdbLoad

SpecResave == Init /\ [][NextResave]_vars

---------------------------------------------------------------------------
(* A stream in which some numbers are not numbers *)

\* EXPIRE k x and ZADD k x a among SET k v, EXPIRE k 1, HSET k f v and
\* ZADD k 0 a
NumberFrames ==
    {Array(<<EXPIRE, <<107>>, <<120>>>>),
     Array(<<ZADD, <<107>>, <<120>>, <<97>>>>),
     Array(<<SET, <<107>>, <<118>>>>),
     Array(<<SET, <<106>>, <<118>>>>),
     Array(<<EXPIRE, <<107>>, <<49>>>>),
     Array(<<HSET, <<107>>, <<102>>, <<118>>>>),
     Array(<<ZADD, <<107>>, <<48>>, <<97>>>>),
     Array(<<DEL, <<107>>>>)}

NextNumbers ==
    \/ Connect
    \/ Receive(NumberFrames)
    \/ Disconnect

SpecNumbers == Init /\ [][NextNumbers]_vars

---------------------------------------------------------------------------
(* Skiplist::insert and Skiplist::erase in any order, with any level *)

NextSkiplist ==
    \/ SlInsert(Scores, Members, 1..MaxSampledLevel)
    \/ SlErase(Scores, Members)

SpecSkiplist == Init /\ [][NextSkiplist]_vars

---------------------------------------------------------------------------
(* Claims about expiry and the three families (checked under Spec) *)

\* some record named k, of any family, carries a finite expire_at_ms
HasFiniteExpire(k) ==
    \/ k \in DOMAIN map_ /\ map_[k].expire_at_ms >= 0
    \/ k \in DOMAIN hmap_ /\ hmap_[k].expire_at_ms >= 0
    \/ k \in DOMAIN zmap_ /\ zmap_[k].expire_at_ms >= 0

\* C1: after any sequence of engine operations the expiry index contains a
\* key k if and only if a record for k (scalar, field-map or ordered-set)
\* carries a finite (non-negative) expire_at_ms.
C1_ExpireIndexExact ==
    \A k \in Keys : k \in DOMAIN expire_index_ <=> HasFiniteExpire(k)

\* the record r has a finite expiry that is not after the clock
Past(r) == r.expire_at_ms >= 0 /\ now >= r.expire_at_ms

\* C2: a get, hget or zscore of a key whose record (of the family the call
\* reads) has a finite expiry e, made at a time now >= e, returns absent.
C2_NoReadAfterExpiry ==
    [][/\ ( /\ ret'.op = "get"
            /\ ret'.key \in DOMAIN map_
            /\ Past(map_[ret'.key]) ) => ret'.r = nullopt
       /\ ( /\ ret'.op = "hget"
            /\ ret'.key \in DOMAIN hmap_
            /\ Past(hmap_[ret'.key]) ) => ret'.r = nullopt
       /\ ( /\ ret'.op = "zscore"
            /\ ret'.key \in DOMAIN zmap_
            /\ Past(zmap_[ret'.key]) ) => ret'.r = nullopt
      ]_vars

\* an hget has found its record past its expiry, removed it and answered
\* absent, while a scalar of the same name stays readable
C2_Witness ==
    /\ ret.op = "hget"
    /\ ret.changed
    /\ ret.r = nullopt
    /\ ret.key \in DOMAIN map_

\* the names under which a record of some family is stored
Stored == DOMAIN map_ \cup DOMAIN hmap_ \cup DOMAIN zmap_

\* every record stored under the name k has a finite expiry that has passed
AllExpired(k) ==
    /\ k \in Stored
    /\ k \in DOMAIN map_ => Past(map_[k])
    /\ k \in DOMAIN hmap_ => Past(hmap_[k])
    /\ k \in DOMAIN zmap_ => Past(zmap_[k])

\* C3: when every record stored under a key has 0 <= expire_at_ms <= now, the
\* next operation on that key observes it as absent, whichever family holds
\* the record: exists answers false and the key listing leaves it out.
C3_NextAccessSeesAbsent ==
    [][/\ (ret'.op = "exists" /\ AllExpired(ret'.key)) => ret'.r = FALSE
       /\ ret'.op = "listKeys" =>
              \A k \in Keys : AllExpired(k) => k \notin ret'.r
      ]_vars

\* C4: after del(keys) no family holds any of the named keys (exists is
\* false for each) and the count returned is the number of names removed.
C4_DelAllFamilies ==
    ret.op = "del" =>
        \A i \in 1..Len(ret.keys) : ~exists(Store, ret.keys[i], now).r

---------------------------------------------------------------------------
(* Claims about ordered sets (checked under SpecZSet) *)

\* the pairs held by the active storage of an ordered-set record, in order
StorageOf(rec) == IF rec.use_skiplist THEN toVector(rec.sl[1]) ELSE rec.items

\* the (score, member) pairs of the record according to member_to_score
PairsOf(rec) ==
    {<<rec.member_to_score[m], m>> : m \in DOMAIN rec.member_to_score}

\* the elements of a sequence
Range(q) == {q[i] : i \in 1..Len(q)}

\* C5: for every ordered-set record, member_to_score has the same size and
\* exactly the same (member, score) pairs as the active storage (vector or
\* skiplist): no member twice in the storage, none missing on either side.
C5_StorageMatchesMemberToScore ==
    \A k \in DOMAIN zmap_ :
        /\ Len(StorageOf(zmap_[k])) =
               Cardinality(DOMAIN zmap_[k].member_to_score)
        /\ Range(StorageOf(zmap_[k])) = PairsOf(zmap_[k])

\* the total order of the specification: score ascending, two scores within
\* 1e-6 of each other count as equal and the member decides
TotalLess(a, b) ==
    IF Abs(a[1] - b[1]) <= kDelta THEN StrLess(a[2], b[2]) ELSE a[1] < b[1]

IsSorted(q) ==
    \A i, j \in 1..Len(q) : i < j => ~TotalLess(q[j], q[i])

\* C6: zrange(key, 0, -1) equals the list of the current (score, member)
\* pairs sorted by score ascending, ties (scores within 1e-6) broken by
\* member ascending, in both storage modes.  (Stated for the sets of pairs
\* that have such a sorted list.)
C6_ZRangeIsSorted ==
    (ret.op = "zrange" /\ ret.start = 0 /\ ret.stop = -1) =>
        IF ret.key \notin DOMAIN zmap_ THEN ret.r = <<>>
        ELSE \A q \in Orders(PairsOf(zmap_[ret.key])) :
                 IsSorted(q) => ret.r = MembersOf(q)

\* the step is a zadd of a new member to the key k whose vector is full
GrowingZAdd(k) ==
    /\ k \in DOMAIN zmap_
    /\ ~zmap_[k].use_skiplist
    /\ Len(zmap_[k].items) = kZsetVectorThreshold
    /\ LET call == IF ret'.op = "crash" THEN ret'.call ELSE ret'
       IN  /\ call.op = "zadd"
           /\ call.key = k
           /\ call.member \notin DOMAIN zmap_[k].member_to_score

\* C7: a record is in sequence mode only while its member count is at most
\* the threshold; the zadd that brings the count above the threshold
\* switches it to indexed mode with every pair carried over; a record in
\* indexed mode never returns to sequence mode.
C7_AdaptiveStorage ==
    [][\A k \in Keys :
         /\ (k \in DOMAIN zmap_' /\ ~zmap_'[k].use_skiplist) =>
                Len(zmap_'[k].items) <= kZsetVectorThreshold
         /\ GrowingZAdd(k) =>
                /\ ~crashed'
                /\ k \in DOMAIN zmap_'
                /\ zmap_'[k].use_skiplist
                /\ Len(toVector(zmap_'[k].sl[1])) = kZsetVectorThreshold + 1
                /\ Range(toVector(zmap_'[k].sl[1])) =
                       Range(zmap_[k].items) \cup
                           {<<ret'.score, ret'.member>>}
         /\ (k \in DOMAIN zmap_ /\ zmap_[k].use_skiplist /\ k \in DOMAIN zmap_')
                => zmap_'[k].use_skiplist
      ]_vars

\* C8: snapshotZSet returns, for every ordered-set key, its full
\* (score, member) list in total order together with its expiry, whatever
\* the storage mode of the record.
C8_SnapshotZSet ==
    /\ ret.op = "crash" => ret.call.op # "snapshotZSet"
    /\ ret.op = "snapshotZSet" =>
         /\ {f.key : f \in ret.r} = DOMAIN zmap_
         /\ \A f \in ret.r :
              /\ f.expire_at_ms = zmap_[f.key].expire_at_ms
              /\ Len(f.items) = Cardinality(PairsOf(zmap_[f.key]))
              /\ Range(f.items) = PairsOf(zmap_[f.key])
              /\ IsSorted(f.items)

---------------------------------------------------------------------------
(* Claims about the snapshot file (checked under SpecRdb) *)

\* the engine after the step
StoreAfter ==
    [map_ |-> map_', hmap_ |-> hmap_', zmap_ |-> zmap_',
     expire_index_ |-> expire_index_']

\* the step is a load by a starting process of the file that the last step,
\* a save that returned true, has written
LoadsTheSaved ==
    /\ ret.op = "save" /\ ret.enabled /\ ret.r
    /\ \/ ret'.op = "load" /\ ret'.enabled
       \/ ret'.op = "crash" /\ ret'.call.op = "load"

\* the engines s and t hold the same scalars, the same field maps, the same
\* ordered sets (members, scores and order) and the same expire_at_ms
SameEngine(s, t) ==
    /\ t.map_ = s.map_
    /\ t.hmap_ = s.hmap_
    /\ DOMAIN t.zmap_ = DOMAIN s.zmap_
    /\ \A k \in DOMAIN s.zmap_ :
         /\ t.zmap_[k].member_to_score = s.zmap_[k].member_to_score
         /\ StorageOf(t.zmap_[k]) = StorageOf(s.zmap_[k])
         /\ t.zmap_[k].expire_at_ms = s.zmap_[k].expire_at_ms

\* C9: Rdb::save followed by Rdb::load into an empty engine yields an equal
\* engine: the same scalars, the same field maps, the same ordered sets
\* (members and order) and the same expire_at_ms for every record.
C9_SaveLoadRoundTrip ==
    [][LoadsTheSaved =>
         /\ ret'.op = "load"
         /\ ret'.r = "true"
         /\ SameEngine(Store, StoreAfter)
      ]_vars

\* the byte strings an engine holds: the keys with their values, the keys
\* with their fields and values, the keys with their members
Strings(s) ==
    [scalars |-> {<<k, s.map_[k].value>> : k \in DOMAIN s.map_},
     fields  |-> UNION {{<<k, f, s.hmap_[k].fields[f]>> :
                            f \in DOMAIN s.hmap_[k].fields} :
                        k \in DOMAIN s.hmap_},
     members |-> UNION {{<<k, m>> : m \in DOMAIN s.zmap_[k].member_to_score} :
                        k \in DOMAIN s.zmap_}]

\* C10: a key, value, field name or member made of arbitrary bytes (spaces
\* and the newline byte included) is written with its length and read back
\* by Rdb::load as the same byte string, the records after it unshifted:
\* when Rdb::save has written every record and Rdb::load has run to its
\* end, the loaded engine holds the byte strings of the saved one.
C10_ContentAgnostic ==
    [][(LoadsTheSaved /\ ret.whole /\ ret'.op = "load") =>
         /\ ret'.r = "true"
         /\ Strings(StoreAfter) = Strings(Store)
      ]_vars

---------------------------------------------------------------------------
(* Claims about the legacy snapshot file (checked under SpecV1) *)

\* a process starts from the legacy file that was just written
LoadsTheLegacy == ret.op = "writeV1" /\ ret'.op = "load" /\ ret'.enabled

\* C11: loading a file with the header MRDB1 that holds N scalar records
\* into an empty engine succeeds, and the engine then holds exactly those
\* N scalars, with their values and expiries, no field map and no ordered
\* set
C11_LegacyLoad ==
    [][LoadsTheLegacy =>
         /\ ret'.r = "true"
         /\ map_' = ret.map
         /\ hmap_' = EmptyMap
         /\ zmap_' = EmptyMap
      ]_vars

---------------------------------------------------------------------------
(* Claims about the replication client (checked under SpecRepl) *)

\* the step handles the bootstrap payload, which it could write to the file
Bootstraps ==
    ret'.op = "frame" /\ ret'.v.type = "bulk" /\ ret'.end # "return"

\* C12: when the replication client receives the bulk-string payload and
\* loads it, the engine of the replica is replaced by the content of the
\* snapshot: it holds exactly the records of the snapshot (what a load
\* into an empty engine gives), and a key that was on the replica before
\* and is not in the snapshot is gone
C12_BootstrapReplaces ==
    [][Bootstraps =>
         /\ ret'.end = "loop"
         /\ SameEngine(load(EmptyStore, ret'.v.bulk, 1, now).s, StoreAfter)
      ]_vars

\* the step handles a command frame of the stream
AppliesCommand ==
    ret'.op = "frame" /\ ret'.v.type = "array" /\ ret'.v.array # <<>>

\* C13: every mutating command frame of the stream (SET with its EX and PX
\* forms, DEL, EXPIRE, HSET, HDEL, ZADD, ZREM) is applied to the engine of
\* the replica with the effect the client command has on the primary, so
\* that an engine equal to the primary's before the frame is equal to it
\* after the frame
C13_StreamApplied ==
    [][AppliesCommand =>
         /\ ret'.end = "loop"
         /\ SameEngine(execute(Store, ret'.v.array, now), StoreAfter)
      ]_vars

\* the frame is the simple string "OFFSET <n>"
IsOffset(v) == v.type = "simple" /\ StartsWith(v.bulk, OFFSET)

\* the number n of "OFFSET <n>"
OffsetOf(v) == stoi(SubSeq(v.bulk, Len(OFFSET) + 1, Len(v.bulk))).v

\* C14: a simple-string frame "OFFSET <n>" makes last_offset_ n, and a
\* frame of another kind leaves last_offset_ as it is
C14_OffsetFrame ==
    [][ret'.op = "frame" =>
         last_offset_' = IF IsOffset(ret'.v) THEN OffsetOf(ret'.v)
                         ELSE last_offset_
      ]_vars

---------------------------------------------------------------------------
(* Claims about the operations of one key (checked under Spec) *)

\* C15: set(key, value, ttl) overwrites the scalar record of key; with a
\* TTL the record's expire_at_ms is now + ttl and the key is indexed;
\* without a TTL the record is persistent, whatever expiry the scalar had,
\* and a ttl(key) that follows returns -1
C15_SetOverwrites ==
    [][/\ ret'.op = "set" =>
            /\ ret'.r = TRUE
            /\ ret'.key \in DOMAIN map_'
            /\ map_'[ret'.key].value = ret'.value
            /\ IF has_value(ret'.ttl_ms)
               THEN /\ map_'[ret'.key].expire_at_ms = now + ret'.ttl_ms[1]
                    /\ ret'.key \in DOMAIN expire_index_'
                    /\ expire_index_'[ret'.key] = now + ret'.ttl_ms[1]
               ELSE map_'[ret'.key].expire_at_ms = -1
       /\ ( /\ ret.op = "set"
            /\ ~has_value(ret.ttl_ms)
            /\ ret'.op = "ttl"
            /\ ret'.key = ret.key ) => ret'.r = -1
      ]_vars

\* a set with a TTL, made after the clock has moved, has stored now + ttl
\* and indexed the key
C15_Witness ==
    /\ ret.op = "set"
    /\ has_value(ret.ttl_ms)
    /\ now > 0
    /\ map_[ret.key].expire_at_ms = now + ret.ttl_ms[1]
    /\ ret.key \in DOMAIN expire_index_

\* the key k names a live record: one of some family that is not expired
Live(k) ==
    \/ k \in DOMAIN map_ /\ ~Past(map_[k])
    \/ k \in DOMAIN hmap_ /\ ~Past(hmap_[k])
    \/ k \in DOMAIN zmap_ /\ ~Past(zmap_[k])

\* every record of the function g after the step is a record of f before
Kept(f, g) == \A k \in DOMAIN g : k \in DOMAIN f /\ g[k] = f[k]

\* C16: expire(key, seconds) returns false, and changes no record, if and
\* only if no family holds a live record of key; otherwise it returns true
\* and the record's expire_at_ms becomes -1 for negative seconds and
\* now + seconds * 1000 else
C16_Expire ==
    [][ret'.op = "expire" =>
         LET k == ret'.key
             e == IF ret'.ttl_seconds < 0 THEN -1
                  ELSE now + ret'.ttl_seconds * 1000
         IN  IF ~Live(k)
             THEN /\ ret'.r = FALSE
                  /\ Kept(map_, map_')
                  /\ Kept(hmap_, hmap_')
                  /\ Kept(zmap_, zmap_')
             ELSE /\ ret'.r = TRUE
                  /\ (k \in DOMAIN map_ /\ ~Past(map_[k])) =>
                         (k \in DOMAIN map_' /\ map_'[k].expire_at_ms = e)
                  /\ (k \in DOMAIN hmap_ /\ ~Past(hmap_[k])) =>
                         (k \in DOMAIN hmap_' /\ hmap_'[k].expire_at_ms = e)
                  /\ (k \in DOMAIN zmap_ /\ ~Past(zmap_[k])) =>
                         (k \in DOMAIN zmap_' /\ zmap_'[k].expire_at_ms = e)
      ]_vars

\* the expire_at_ms of the live records that k names
Expiries(k) ==
    {map_[x].expire_at_ms : x \in {y \in DOMAIN map_ \cap {k} : ~Past(map_[y])}}
    \cup
    {hmap_[x].expire_at_ms :
         x \in {y \in DOMAIN hmap_ \cap {k} : ~Past(hmap_[y])}}
    \cup
    {zmap_[x].expire_at_ms :
         x \in {y \in DOMAIN zmap_ \cap {k} : ~Past(zmap_[y])}}

\* C17: ttl(key) returns -2 when the key is absent or already expired, -1
\* when the key exists without expiry, and else the seconds that remain,
\* floor((expire_at_ms - now) / 1000), which is not negative
C17_Ttl ==
    [][ret'.op = "ttl" =>
         IF ~Live(ret'.key) THEN ret'.r = -2
         ELSE /\ ret'.r >= -1
              /\ ret'.r \in {IF e < 0 THEN -1 ELSE (e - now) \div 1000 :
                                 e \in Expiries(ret'.key)}
      ]_vars

\* the fields of the live field map that k names
LiveFields(k) ==
    IF k \in DOMAIN hmap_ /\ ~Past(hmap_[k]) THEN DOMAIN hmap_[k].fields
    ELSE {}

\* the fields of the field map that k names after the step
FieldsAfter(k) ==
    IF k \in DOMAIN hmap_' THEN DOMAIN hmap_'[k].fields ELSE {}

\* C18: hset returns 1 exactly when the field was not in the live record
\* and 0 when it overwrites; hdel returns the number of fields it removes,
\* and when it removes the last one the record is deleted, so that hlen is
\* 0 and exists sees no field map; hlen is the number of fields that are
\* set
C18_FieldMap ==
    [][/\ ret'.op = "hset" =>
            /\ ret'.r = IF ret'.field \in LiveFields(ret'.key) THEN 0 ELSE 1
            /\ FieldsAfter(ret'.key) = LiveFields(ret'.key) \cup {ret'.field}
            /\ hmap_'[ret'.key].fields[ret'.field] = ret'.value
       /\ ret'.op = "hdel" =>
            /\ ret'.r = Cardinality(LiveFields(ret'.key) \cap
                                    Range(ret'.fields))
            /\ FieldsAfter(ret'.key) = LiveFields(ret'.key) \
                                           Range(ret'.fields)
            /\ FieldsAfter(ret'.key) = {} =>
                   /\ ret'.key \notin DOMAIN hmap_'
                   /\ hlen(StoreAfter, ret'.key, now).r = 0
                   /\ exists(StoreAfter, ret'.key, now).r =>
                          ret'.key \in DOMAIN map_' \cup DOMAIN zmap_'
       /\ ret'.op = "hlen" =>
            ret'.r = Cardinality(LiveFields(ret'.key))
      ]_vars

\* an hdel has removed the two fields of a record, and with them the record
C18_Witness ==
    /\ ret.op = "hdel"
    /\ ret.r = 2
    /\ ret.key \notin DOMAIN hmap_

---------------------------------------------------------------------------
(* Claims about zadd and zrem (checked under SpecZSet) *)

\* the members of the live ordered set that k names
LiveMembers(k) ==
    IF k \in DOMAIN zmap_ /\ ~Past(zmap_[k])
    THEN DOMAIN zmap_[k].member_to_score
    ELSE {}

\* how often x occurs in the sequence q
Count(q, x) == Cardinality({i \in 1..Len(q) : q[i] = x})

\* the step is a call of the operation op, whether it returns or the
\* process dies in it
Calls(op) ==
    \/ ret'.op = op
    \/ ret'.op = "crash" /\ ret'.call.op = op

\* C19: zadd(key, score, member) returns 1 exactly when the member was not
\* in the set and 0 when it was; after it, zscore(key, member) is the
\* score given and the member occurs exactly once in zrange(key, 0, -1),
\* in sequence mode and in indexed mode
C19_ZAdd ==
    [][Calls("zadd") =>
         /\ ret'.op = "zadd"
         /\ ret'.r = IF ret'.member \in LiveMembers(ret'.key) THEN 0 ELSE 1
         /\ zscore(StoreAfter, ret'.key, ret'.member, now).r =
                Some(ret'.score)
         /\ Count(zrange(StoreAfter, ret'.key, 0, -1, now).r,
                  ret'.member) = 1
      ]_vars

\* C20: zrem(key, members) returns the number of the listed members that
\* were in the set and removes each of them from the storage and from
\* member_to_score, in sequence mode and in indexed mode; when the set
\* becomes empty the record is deleted; zrange then returns none of the
\* removed members and zscore returns absent for each of them
C20_ZRem ==
    [][Calls("zrem") =>
         /\ ret'.op = "zrem"
         /\ ret'.r = Cardinality(LiveMembers(ret'.key) \cap
                                 Range(ret'.members))
         /\ LET left == LiveMembers(ret'.key) \ Range(ret'.members)
                range == zrange(StoreAfter, ret'.key, 0, -1, now).r
            IN  /\ left = {} => ret'.key \notin DOMAIN zmap_'
                /\ left # {} =>
                       /\ ret'.key \in DOMAIN zmap_'
                       /\ DOMAIN zmap_'[ret'.key].member_to_score = left
                /\ Range(range) = left
                /\ \A m \in Range(ret'.members) :
                       zscore(StoreAfter, ret'.key, m, now).r = nullopt
      ]_vars

---------------------------------------------------------------------------
(* Claims about reading by rank (checked under SpecRange) *)

\* the index idx of a list of n entries: n is added to a negative index,
\* then the index is clamped into 0..n-1
Clamped(idx, n) ==
    LET i == IF idx < 0 THEN idx + n ELSE idx
    IN  IF i < 0 THEN 0 ELSE IF i > n - 1 THEN n - 1 ELSE i

\* the entries of q at the ranks first..last, counted from 0
Ranks(q, first, last) == [i \in 1..(last - first + 1) |-> q[first + i]]

\* the current (score, member) pairs of the key k
PairsAt(k) == IF k \in DOMAIN zmap_ THEN PairsOf(zmap_[k]) ELSE {}

\* C21: for a set of n members zrange(key, start, stop), and with it
\* Skiplist::rangeByRank(start, stop), returns the members at the ranks
\* norm(start)..norm(stop) of the total order, norm adding n to a negative
\* index and then clamping into 0..n-1; it returns nothing when the set is
\* empty or absent or norm(start) > norm(stop); sequence mode and indexed
\* mode give the same answer for the same contents
C21_ZRangeByRank ==
    ret.op = "zrange" =>
        \A q \in Orders(PairsAt(ret.key)) :
            IsSorted(q) =>
                LET n == Len(q)
                    s == Clamped(ret.start, n)
                    e == Clamped(ret.stop, n)
                IN  ret.r = IF n = 0 \/ s > e THEN <<>>
                            ELSE MembersOf(Ranks(q, s, e))

---------------------------------------------------------------------------
(* Claims about the write-ahead log (checked under SpecAof) *)

\* the step emits the response to the mutation with sequence number s
Responds(s) == outbound' = Append(outbound, s)

\* the frames of the log file, from its start
FramesOf(f) == f.base \o f.tail

\* C22: in always mode the response to a client mutation with sequence
\* number s is emitted only after the writer has written and fsynced the
\* record that carries s (last_synced_seq_ >= s), whatever the
\* interleaving of the reactor, the writer and a rewrite
C22_AlwaysDurable ==
    [][\A s \in 1..MaxCmds :
         (opts_.mode = "always" /\ Responds(s)) =>
             /\ last_synced_seq_ >= s
             /\ Command(s) \in Range(FramesOf(aof))
      ]_vars

\* in always mode a response has been emitted while a rewrite was running
C22_Witness ==
    /\ opts_.mode = "always"
    /\ pc["reactor"] = "idle"
    /\ Len(outbound) >= 2
    /\ rewriting_
    /\ incr_cmds_ # <<>>

\* every mutation accepted so far has been written and no rewrite runs
Settled ==
    /\ opts_.enabled
    /\ pc["reactor"] = "idle"
    /\ pc["writer"] = "wait"
    /\ queue_ = <<>>
    /\ Rewriting = {}

\* the place of a frame in the order in which the mutations were accepted
Accepted(frame) == CHOOSE c \in 1..MaxCmds : Command(c) = frame

\* C23: rewrite equivalence.  For every interleaving of the reactor, the
\* writer and the rewriter, every mutation accepted while a rewrite runs
\* ends up exactly once, in acceptance order, after the rewritten base in
\* the new log file, and replaying the log reconstructs the engine state:
\* no mutation is lost or duplicated around pause, rename and resume
C23_RewriteEquivalence ==
    Settled =>
        /\ replay(EmptyStore, FramesOf(aof)) = Store
        /\ \A i, j \in 1..Len(aof.tail) :
               i < j => Accepted(aof.tail[i]) < Accepted(aof.tail[j])

\* C24: at most one background rewrite of the log runs at any time: a
\* bgRewrite request issued while a rewrite is in progress starts no
\* second rewriter, whatever the interleaving of the requests
C24_OneRewrite == Cardinality(Rewriting) <= 1

\* a bgRewrite request has been turned down while a rewrite was running
C24_Witness ==
    /\ ret.op = "bgRewrite"
    /\ ~ret.r
    /\ Rewriting # {}

\* the step enqueues a record in the log
Enqueues == Len(queue_') > Len(queue_)

\* C25: the log sees the mutations in the order in which the engine applies
\* them: the record of a mutation is enqueued while the engine exclusion
\* taken for that mutation is still held, so it is the record of the
\* mutation the engine applied last and every earlier one is enqueued
C25_EnqueueUnderExclusion ==
    [][Enqueues =>
         /\ mu_ = Some("reactor")
         /\ queue_'[Len(queue_')].data = Command(seq_gen_ + 1)
         /\ execute(EmptyStore, Command(seq_gen_ + 1), now).map_ = map_
      ]_vars

---------------------------------------------------------------------------
(* Claims about the engine exclusion (checked under SpecCallers) *)

\* C26: every engine operation that reads or writes one of the engine maps
\* (every public method of KeyValueStore, size() among them) does so only
\* while it holds the engine exclusion, so that the operations of the
\* reactor and of the replication client thread never touch the maps at
\* the same time
C26_AllUnderExclusion ==
    /\ \A t \in Callers : pc[t] = "in" => mu_ = Some(t)
    /\ Cardinality({t \in Callers : pc[t] = "in"}) <= 1

---------------------------------------------------------------------------
(* Claims about the command line (checked under SpecMain) *)

\* C27: the exit status of the process: "-h" or "--help" prints the usage
\* and the process exits with status 0; an unknown argument prints a
\* diagnostic and the process exits with status 1
C27_ExitStatus ==
    (ret.op = "main" /\ ret.args # <<>>) =>
        /\ ret.args[1] \in {OptH, OptHelp} =>
               /\ ret.status = 0
               /\ ret.out = <<[cout |-> "usage"]>>
        /\ ret.args[1] \in {<<56, 48>>, <<120>>} =>
               /\ ret.status = 1
               /\ ret.out # <<>>
               /\ ret.out[1] = [cerr |-> "Unknown argument",
                                arg |-> ret.args[1]]

---------------------------------------------------------------------------
(* Claims about the Skiplist (checked under SpecSkiplist) *)

\* the positions in the bottom chain of the nodes that hold the member
\* with a score within kDelta of the score
Matches(sl, score, member) ==
    {i \in 1..Len(sl.chain[1]) :
        /\ sl.chain[1][i][2] = member
        /\ Abs(sl.chain[1][i][1] - score) <= kDelta}

\* the list q without the node
Unlinked(q, node) == SelectSeq(q, LAMBDA n : n # node)

\* the sequence q without the one entry at position i
Without(q, i) == SubSeq(q, 1, i - 1) \o SubSeq(q, i + 1, Len(q))

\* C28: Skiplist::erase(score, member) returns true, unlinks the node from
\* every level and decrements the size by one exactly when a node with
\* that member and a score within 1e-6 exists; in every other case, the
\* search reaching the end of the list included, it returns false and
\* leaves the list unchanged; after a successful erase the highest level
\* is lowered while its head pointer is unused
C28_Erase ==
    [][Calls("erase") =>
         /\ ret'.op = "erase"
         /\ LET found == Matches(skiplist, ret'.score, ret'.member)
            IN  /\ ret'.r = (found # {})
                /\ found = {} => skiplist' = skiplist
                /\ found # {} =>
                       /\ skiplist'.length_ = skiplist.length_ - 1
                       /\ \E i \in found :
                              \A l \in 1..kMaxLevel :
                                  skiplist'.chain[l] =
                                      Unlinked(skiplist.chain[l],
                                               skiplist.chain[1][i])
                       /\ \/ skiplist'.level_ = 1
                          \/ skiplist'.chain[skiplist'.level_] # <<>>
      ]_vars

\* C29: Skiplist::insert(score, member) returns false and leaves the list
\* unchanged when a node with the same member and a score within 1e-6
\* exists; otherwise, for every level the level sampler can return, it
\* links a new node, returns true and the size grows by exactly one
C29_Insert ==
    [][Calls("insert") =>
         /\ ret'.op = "insert"
         /\ LET found == Matches(skiplist, ret'.score, ret'.member)
            IN  /\ ret'.r = (found = {})
                /\ found # {} => skiplist' = skiplist
                /\ found = {} =>
                       /\ skiplist'.length_ = skiplist.length_ + 1
                       /\ \E i \in 1..Len(skiplist'.chain[1]) :
                              /\ skiplist'.chain[1][i] =
                                     <<ret'.score, ret'.member>>
                              /\ Without(skiplist'.chain[1], i) =
                                     skiplist.chain[1]
      ]_vars

\* the list q is strictly increasing from each entry to the next
Increasing(q) ==
    \A i \in 1..(Len(q) - 1) :
        comparedLess(q[i][1], q[i][2], q[i + 1][1], q[i + 1][2])

\* the entries of the list u occur in the list q in the same order
RECURSIVE Subsequence(_, _)
Subsequence(u, q) ==
    IF u = <<>> THEN TRUE
    ELSE IF q = <<>> THEN FALSE
    ELSE IF Head(u) = Head(q) THEN Subsequence(Tail(u), Tail(q))
    ELSE Subsequence(u, Tail(q))

\* the chains of a list are in order and each lies within the one below
Ordered(sl) ==
    /\ Increasing(sl.chain[1])
    /\ \A i \in 1..(kMaxLevel - 1) :
           Subsequence(sl.chain[i + 1], sl.chain[i])

\* C30: after any sequence of Skiplist insert and erase with any sampled
\* levels, the bottom-level chain is strictly increasing in the total
\* order, every node linked at level i+1 is linked at level i in the
\* same relative order, and every link followed during an insert or an
\* erase starts from a set predecessor
C30_Chains ==
    [][(Calls("insert") \/ Calls("erase")) =>
         /\ Ordered(skiplist')
         /\ Calls("insert") => ret'.op = "insert"
      ]_vars

---------------------------------------------------------------------------
(* Claims about the periodic expiry (checked under SpecScan) *)

\* C31: within one call of expireScanStep(max_steps) no entry of the expiry
\* index is examined more than once and the scan wraps around the index at
\* most once, also when the index holds fewer than max_steps entries
C31_ScanOnce ==
    ret.op = "expireScanStep" =>
        /\ \A i, j \in 1..Len(ret.examined) :
               ret.examined[i] = ret.examined[j] => i = j
        /\ ret.wraps <= 1

\* the records that the key k names, by family
RecordsOf(s, k) ==
    [map_  |-> IF k \in DOMAIN s.map_ THEN Some(s.map_[k]) ELSE nullopt,
     hmap_ |-> IF k \in DOMAIN s.hmap_ THEN Some(s.hmap_[k]) ELSE nullopt,
     zmap_ |-> IF k \in DOMAIN s.zmap_ THEN Some(s.zmap_[k]) ELSE nullopt,
     expire_index_ |-> IF k \in DOMAIN s.expire_index_
                       THEN Some(s.expire_index_[k]) ELSE nullopt]

\* no family and no index entry holds the key k
Gone(s, k) ==
    RecordsOf(s, k) = [map_ |-> nullopt, hmap_ |-> nullopt,
                       zmap_ |-> nullopt, expire_index_ |-> nullopt]

\* C32: expireScanStep(max_steps) examines at most max_steps index entries;
\* every examined entry whose expiry is <= now has its record removed from
\* whichever family holds it and its index entry removed; the value
\* returned is the number of entries removed (0 when max_steps <= 0 or the
\* index is empty); entries that are not yet due are left in place
C32_ScanRemovesDue ==
    [][ret'.op = "expireScanStep" =>
         LET seen == Range(ret'.examined)
             due  == {k \in DOMAIN expire_index_ : expire_index_[k] <= now}
         IN  /\ Len(ret'.examined) <= ret'.max_steps \/ ret'.examined = <<>>
             /\ seen \subseteq DOMAIN expire_index_
             /\ \A k \in seen \cap due : Gone(StoreAfter, k)
             /\ ret'.r = Cardinality(seen \cap due)
             /\ ret'.r = Cardinality(DOMAIN expire_index_ \
                                     DOMAIN expire_index_')
             /\ (ret'.max_steps <= 0 \/ DOMAIN expire_index_ = {}) =>
                    ret'.r = 0 /\ StoreAfter = Store
             /\ \A k \in Keys \ (seen \cap due) :
                    RecordsOf(StoreAfter, k) = RecordsOf(Store, k)
      ]_vars

\* a call with max_steps of 2 or more examined two entries, removed the
\* one that was due and left the other, not yet due, in place
C32_Witness ==
    /\ ret.op = "expireScanStep"
    /\ ret.max_steps >= 2
    /\ Len(ret.examined) >= 2
    /\ ret.r = 1
    /\ DOMAIN expire_index_ # {}

---------------------------------------------------------------------------
(* Claims about a save beside another thread (checked under SpecSave) *)

\* C33: the scalar, field-map and ordered-set sections written by one
\* Rdb::save all reflect one single engine state: a mutation made by a
\* concurrent task during the save is never visible in one section and
\* missing from another
C33_OneEngineState ==
    (ret.op = "save" /\ ret.r) =>
        \E s \in ret.seen :
            /\ ret.snap_str = s.map_
            /\ ret.snap_hash = s.hmap_
            /\ \A key \in DOMAIN ret.snap_zset :
                   /\ key \in DOMAIN s.zmap_
                   /\ ret.snap_zset[key] = Flat(s, key)

---------------------------------------------------------------------------
(* Claims about stopping the replication client (checked under SpecStop) *)

\* C34: after ReplicaClient::stop() is called, the replication task
\* observes the stop flag at its suspension point, exits, and stop()
\* returns, even when the primary keeps the connection open and sends no
\* further bytes
C34_StopReturns ==
    (pc["reactor"] = "join") ~> (pc["reactor"] = "stopped")

---------------------------------------------------------------------------
(* Claims about the three families together (checked under Spec) *)

\* the families that hold a record under the name k
FamiliesOf(k) ==
    {f \in {"map_", "hmap_", "zmap_"} : k \in DOMAIN Store[f]}

\* C35: a key name is unique across the three families combined: after any
\* sequence of set, hset, zadd and del, at most one of the scalar,
\* field-map and ordered-set maps holds a record for a given key name
C35_UniqueKey ==
    \A k \in Keys : Cardinality(FamiliesOf(k)) <= 1

\* the records of the function f that the step removes
Removed(f, g) == {k \in DOMAIN f : k \notin DOMAIN g}

\* C36: expiry (the lazy cleanup and expireScanStep) removes a record only
\* if that record's own expire_at_ms is finite and <= now: a persistent or
\* later-expiring record is never removed because a same-named record of
\* another family has an expiry, or because an earlier record of that key
\* which hdel or zrem deleted left an expiry behind
C36_OwnExpiryOnly ==
    [][ret'.op \notin {"del", "hdel", "zrem"} =>
         /\ \A k \in Removed(map_, map_') : Past(map_[k])
         /\ \A k \in Removed(hmap_, hmap_') : Past(hmap_[k])
         /\ \A k \in Removed(zmap_, zmap_') : Past(zmap_[k])
      ]_vars

---------------------------------------------------------------------------
(* Claims about the sampled levels (checked under SpecZSet) *)

\* what can be observed of the ordered set key in the store s
Observed(s, key) ==
    [zrange |-> zrange(s, key, 0, -1, now).r,
     zscore |-> [m \in Members |-> zscore(s, key, m, now).r],
     snapshotZSet |-> snapshotZSetOut(s)]

\* C37: the observable results of ordered-set operations (the values zadd
\* and zrem return, zrange, zscore, snapshotZSet) do not depend on the
\* levels sampled by Skiplist::randomLevel: the same operation with
\* different level choices gives identical results, and no level choice
\* makes an operation fault
C37_LevelIndependent ==
    [][Calls("zadd") =>
         LET call == IF ret'.op = "crash" THEN ret'.call ELSE ret'
             n    == LevelCalls(call.key, call.member)
             one  == zadd(Store, call.key, call.score, call.member,
                          [i \in 1..n |-> 1], now)
         IN  \A lvls \in LevelSeqs(n) :
                 LET any == zadd(Store, call.key, call.score, call.member,
                                 lvls, now)
                 IN  /\ ~any.ub
                     /\ any.r = one.r
                     /\ Observed(any.s, call.key) = Observed(one.s, call.key)
      ]_vars

---------------------------------------------------------------------------
(* Claims about failing loads and saves *)

\* C38: if Rdb::load returns false (bad magic, missing section tag, or a
\* truncated record in any section), the engine state is the same as
\* before the call: no record of the rejected file has been applied
C38_FailedLoadAppliesNothing ==
    (ret.op = "load" /\ ret.r = "false") => Store = EmptyStore

\* C39: if Rdb::save fails (the file cannot be opened, or a write fails and
\* save returns false with an error), the snapshot file saved by the
\* previous successful save is still intact at the snapshot path and
\* loads to the state it held
C39_FailedSaveKeepsFile ==
    [][(has_value(file) /\ ret'.op = "save" /\ ret'.enabled /\ ~ret'.r) =>
           file' = file
      ]_vars

---------------------------------------------------------------------------
(* Claims about numbers in the stream (checked under SpecNumbers) *)

\* the frame is an EXPIRE or a ZADD whose number cannot be converted
BadNumber(v) ==
    /\ v.type = "array"
    /\ Len(v.array) >= 3
    /\ \/ /\ Upper(v.array[1]) = EXPIRE /\ Len(v.array) = 3
          /\ stoi(v.array[3]).throw
       \/ /\ Upper(v.array[1]) = ZADD /\ Len(v.array) = 4
          /\ stod(v.array[3]).throw

\* C40: a streamed EXPIRE or ZADD frame whose numeric argument is not
\* convertible to a number never terminates the replication task or the
\* process: the frame is skipped with the engine unchanged and the frames
\* that follow it are still applied
C40_BadNumberSkipped ==
    [][(ret'.op = "frame" /\ BadNumber(ret'.v)) =>
           /\ ret'.end = "loop"
           /\ ~crashed'
           /\ StoreAfter = Store
      ]_vars

=============================================================================
